---------------------------- MODULE Spec2Model ----------------------------
(***************************************************************************)
(* A model of the Bithoven trading bot: the serialized rule invoker        *)
(* (TaskQueue), the position ledger as driven by the chain indexer         *)
(* (JSONStore / ChainIndexer.storeEventDetails) and the key-fleet slot     *)
(* coordinator with the trade gofers (TxGofer, BuyGofer, SellGofer).       *)
(*                                                                         *)
(* The three subsystems share no in-memory state in the program; each has  *)
(* its own specification over the module's variables: QueueSpec,           *)
(* LedgerSpec, FleetSpec and SlotSpec.                                               *)
(***************************************************************************)
EXTENDS Integers, Sequences, FiniteSets, TLC

(***************************************************************************)
(* Bounds of the model.                                                    *)
(***************************************************************************)
\* number of rule-evaluation tasks ever added to the shared task queue
MaxTasks == 4
\* number of Trade events the contract emits for the modelled (holder, gamer)
MaxEvents == 4
\* the block of the first Trade event, the distance between two blocks that
\* hold Trade events, and the last block
FirstBlock == 100
BlockStep == 5
LastBlock == 110
\* the ethAmount of a Trade event, per bit traded
UnitPrice == 10
\* number of lots a direct caller of the store ever adds
MaxLots == 2
\* number of keys in the fleet, and of transactions the gofers ever send
NumHolders == 3
MaxTx == 2
\* the clock advances by TimeStep seconds, up to MaxTime
TimeStep == 70
MaxTime == 210
\* number of order proposals the rules ever make, the quantities they ask
\* for, and the bits balances the contract may report for a holder
MaxProposals == 2
SmallQuantity == 3
LargeQuantity == 10
\* the N of the buy rule's action buyUpTo(N)
MaxBitsToOwn == 2
\* number of holders that own bits of the gamer
NumSellHolders == 2
\* number of rule objects in a rule file, and of conditions in a rule
MaxRules == 2
MaxConditions == 2

(***************************************************************************)
(* Configuration values of the program.                                    *)
(***************************************************************************)
\* chainConfig.js
\* chainConfig.js: a periodic fetch of fewer blocks than this lights the rules
catchUpDelta == 40
maxPendingInSeconds == 120
\* jobsConfig.js
lowBalCacheTTLMinutes == 2
staleBuyOrderMinutes == 2
staleSellOrderMinutes == 2

VARIABLES
  \* ---- TaskQueue (taskQueue.js) and its callers (rulesEngineLib.js)
  queue,        \* this.queue: the tasks waiting, in arrival order
  processing,   \* this.processing
  running,      \* the tasks whose task() has been called and has not ended
  promise,      \* per task, the state of the promise add() returned
  awaiting,     \* per trigger source, the task whose promise it awaits (0: none)
  nextTask,     \* the next task to be created
  addOrder,     \* history: the tasks in the order add() pushed them
  startOrder,   \* history: the tasks in the order processNext() started them
  ended,        \* history: per ended task, "returned" or "threw"
  logged        \* the tasks for which TASK_QUEUE_ERROR was logged

VARIABLES
  \* ---- position ledger of one (holder, gamer) (jsonStore.js) and the chain
  \* indexer that feeds it (ChainIndexer.js)
  holdersDir,   \* data/holders/<holder>/<gamer>/: batch number -> batch file
  archiveDir,   \* data/archive/<holder>/<gamer>/: batch number -> batch file
  chainEvents,  \* the Trade events of (holder, gamer) on chain, in chain order
  indexedCount, \* how many of them the indexer has passed to storeEventDetails
  chainBits,    \* the contract's bitsBalance(gamer, holder)
  indexerUp,    \* FALSE once an error has ended the indexing process
  lastCall,     \* the last direct call of the store and what it threw
  startBlock    \* the block the running indexing process started to fetch at

VARIABLES
  \* ---- the indexing process's fetch loop (ChainIndexer.js,
  \* fetchEventsPeriodically) and its rule evaluations
  indexingCaughtUp,  \* this.indexingCaughtUp
  phase,        \* "catchup": in catchupIndex, "fetch": in a periodic fetch,
                \* "idle": between two periodic fetches
  lastEndBlock, \* lastEndBlock of fetchEventsPeriodically
  fetchEnd,     \* endBlock of the fetchEvents call in progress
  evaluated,    \* history: the events this process evaluated the rules for
  appliedBefore,\* history: how many events had gone through storeEventDetails
                \* when indexingCaughtUp was set
  shortSell     \* history: the last event that ended in INSUFFICIENT_BITS

VARIABLES
  \* ---- key fleet: pending-order files, the chain, the execution process
  \* (trade gofers with their TxGofer) and the indexer's markMinedOrder
  now,          \* the clock, in seconds
  funded,       \* per holder: meets the minimum token and gas balance
  orders,       \* data/orders/<holder>/pendingOrder.json: holder -> file
  txs,          \* the transactions the node accepted, by hash
  indexed,      \* the transactions whose Trade event the indexer has stored
  marking,      \* the hash markMinedOrder has matched and is about to mark
  lastChosenFleetAddrIndex,  \* of the buy gofer's TxGofer
  lowBalanceCache,           \* of the buy gofer's TxGofer: holder -> time
  pc,           \* where the execution process is with its proposal
  job,          \* the proposal in hand: direction, holder, transaction
  recorded,     \* history: per hash, the pending orders written for it
  streak        \* history: results of successive selectNextFreeKeySlot calls

VARIABLES
  \* ---- order proposals of one gamer: the producer side of TxGofer
  \* (proposeOrder, called by the rule actions) and the trade gofer loop
  proposals,    \* data/orders/proposedOrders/<buy|sell>/<gamer>/: id -> file
  proposed,     \* how many proposals the rules have made
  writing,      \* where proposeOrder is with the proposal it is writing
  alertFiles,   \* data/orders/proposedOrders/<buy|sell>Alerts/: the files
  alerts,       \* this.alerts[gamer] of each gofer: the alert's time, 0: none
  haltFile,     \* per direction: data/orders/haultBuy, haultSell exists
  gpc,          \* where the loop of executeTrades is
  todo,         \* the order files of readdir the gofer has still to go through
  observed,     \* this cycle of the gofer read an alert file of the gamer
  cur,          \* the proposal the gofer took last: the balance it found,
                \* the quantity it gave to buyBits / sellBits (0: none)
  lowBalCache   \* this.lowBalCache of the sell gofer: holder -> time

VARIABLES
  \* ---- the rules of one component (rulesEngineLib.js): the rule file, what
  \* processJsonRules made of it, and one evaluateAndInvokeRulesAsync call
  document,     \* the JSON document of the rule file
  processed,    \* what processJsonRules(document, schema, role) gave
  evalPos,      \* the rule the for loop of the evaluation is at (0: no call)
  ctxQuantity,  \* ctx.quantity
  invoked,      \* history: the quantity and action functions called, in order
  results,      \* history: per rule gone through, what its conditions gave
  rejection     \* what the promise of the evaluation was rejected with

qvars == <<queue, processing, running, promise, awaiting, nextTask,
           addOrder, startOrder, ended, logged>>

lvars == <<holdersDir, archiveDir, chainEvents, indexedCount, chainBits,
           indexerUp, lastCall, startBlock>>

fvars == <<now, funded, orders, txs, indexed, marking,
           lastChosenFleetAddrIndex, lowBalanceCache, pc, job, recorded,
           streak>>

gvars == <<proposals, proposed, writing, alertFiles, alerts, haltFile, gpc,
           todo, observed, cur, lowBalCache>>

pvars == <<indexingCaughtUp, phase, lastEndBlock, fetchEnd, evaluated,
           appliedBefore, shortSell>>

rvars == <<document, processed, evalPos, ctxQuantity, invoked, results,
           rejection>>

vars == <<qvars, lvars, pvars, fvars, gvars, rvars>>

\* what an action of one subsystem leaves alone
notQueue == <<lvars, pvars, fvars, gvars, rvars>>
notLedger == <<qvars, pvars, fvars, gvars, rvars>>
notIndexer == <<qvars, fvars, gvars, rvars>>
notFleet == <<qvars, lvars, pvars, gvars, rvars>>
notGofer == <<qvars, lvars, pvars, rvars>>
notRules == <<qvars, lvars, pvars, fvars, gvars>>

(***************************************************************************)
(*                 Serialized rule invoker: TaskQueue                      *)
(***************************************************************************)
Tasks == 1..MaxTasks

\* the trigger sources that call evaluateAndInvokeBuy / evaluateAndInvokeSell
Callers == {"chainIndexer", "fullSweep", "cloudNewGamerFeed"}

Range(s) == {s[i] : i \in 1..Len(s)}

QueueInit ==
  /\ queue = <<>>
  /\ processing = FALSE
  /\ running = {}
  /\ promise = [t \in Tasks |-> "none"]
  /\ awaiting = [c \in Callers |-> 0]
  /\ nextTask = 1
  /\ addOrder = <<>>
  /\ startOrder = <<>>
  /\ ended = [t \in Tasks |-> "no"]
  /\ logged = {}

\* a faulty variant of ShouldKick: every add() calls processNext()
ShouldKickAlways(p) == TRUE
\* add(): "if (!this.processing) this.processNext()"
ShouldKick(p) == ~p

\* a faulty variant of Shift: the newest task is taken (pop instead of shift)
ShiftLast(q) == [task |-> q[Len(q)], rest |-> SubSeq(q, 1, Len(q) - 1)]
\* processNext(): "this.queue.shift()"
Shift(q) == [task |-> Head(q), rest |-> Tail(q)]

\* processNext() up to its "await task()": the queue and the flag it leaves, and
\* the task it started (0: none, the queue was empty)
ProcessNext(q) ==
  IF Len(q) = 0
    THEN [queue |-> q, processing |-> FALSE, task |-> 0]
    ELSE [queue |-> Shift(q).rest, processing |-> TRUE, task |-> Shift(q).task]

\* a faulty variant of AfterThrow: no finally, the queue stops at the throw
AfterThrowStalls(q) == [queue |-> q, processing |-> TRUE, task |-> 0]
\* the catch/finally of processNext() after task() threw
AfterThrow(q) == ProcessNext(q)

\* the try/finally of processNext() after task() returned
AfterReturn(q) == ProcessNext(q)

Started(r) == IF r.task = 0 THEN {} ELSE {r.task}
StartedSeq(r) == IF r.task = 0 THEN <<>> ELSE <<r.task>>

\* evaluateAndInvokeRules(ctx, rules) called by trigger source c:
\* sharedTaskQueue.add(task), then the caller awaits the returned promise
Add(c) ==
  /\ awaiting[c] = 0
  /\ nextTask <= MaxTasks
  /\ LET t == nextTask
         q1 == Append(queue, t)
     IN /\ nextTask' = t + 1
        /\ addOrder' = Append(addOrder, t)
        /\ promise' = [promise EXCEPT ![t] = "pending"]
        /\ awaiting' = [awaiting EXCEPT ![c] = t]
        /\ IF ShouldKick(processing)
             THEN LET r == ProcessNext(q1)
                  IN /\ queue' = r.queue
                     /\ processing' = r.processing
                     /\ running' = running \cup Started(r)
                     /\ startOrder' = startOrder \o StartedSeq(r)
             ELSE /\ queue' = q1
                  /\ UNCHANGED <<processing, running, startOrder>>
  /\ UNCHANGED <<ended, logged>>
  /\ UNCHANGED notQueue

\* the awaited task() resolves: resolve(result), then finally processNext()
TaskReturns(t) ==
  /\ t \in running
  /\ LET r == AfterReturn(queue)
     IN /\ queue' = r.queue
        /\ processing' = r.processing
        /\ running' = (running \ {t}) \cup Started(r)
        /\ startOrder' = startOrder \o StartedSeq(r)
  /\ promise' = [promise EXCEPT ![t] = "resolved"]
  /\ ended' = [ended EXCEPT ![t] = "returned"]
  /\ UNCHANGED <<awaiting, nextTask, addOrder, logged>>
  /\ UNCHANGED notQueue

\* the awaited task() rejects: logError(TASK_QUEUE_ERROR), "//reject(error)" is
\* commented out, then finally processNext()
TaskThrows(t) ==
  /\ t \in running
  /\ LET r == AfterThrow(queue)
     IN /\ queue' = r.queue
        /\ processing' = r.processing
        /\ running' = (running \ {t}) \cup Started(r)
        /\ startOrder' = startOrder \o StartedSeq(r)
  /\ logged' = logged \cup {t}
  /\ ended' = [ended EXCEPT ![t] = "threw"]
  /\ UNCHANGED <<promise, awaiting, nextTask, addOrder>>
  /\ UNCHANGED notQueue

\* the caller's "await evaluateAndInvoke...(ctx, rules)" resumes once the
\* promise has settled
Resume(c) ==
  /\ awaiting[c] # 0
  /\ promise[awaiting[c]] \in {"resolved", "rejected"}
  /\ awaiting' = [awaiting EXCEPT ![c] = 0]
  /\ UNCHANGED <<queue, processing, running, promise, nextTask,
                 addOrder, startOrder, ended, logged>>
  /\ UNCHANGED notQueue

QueueNext ==
  \/ \E c \in Callers : Add(c)
  \/ \E t \in Tasks : TaskReturns(t)
  \/ \E t \in Tasks : TaskThrows(t)
  \/ \E c \in Callers : Resume(c)

(***************************************************************************)
(*        Position ledger (JSONStore) and ChainIndexer.storeEventDetails   *)
(***************************************************************************)
\* the bitAmount of the Trade events the chain may emit
BuyAmounts == {0, 12, 15}
SellAmounts == {0, 8, 12, 20}

Max(S) == CHOOSE x \in S : \A y \in S : y <= x
Min(S) == CHOOSE x \in S : \A y \in S : x <= y

\* a directory with file n removed, and with file n written
RemoveFile(dir, n) == [k \in (DOMAIN dir) \ {n} |-> dir[k]]
WriteFile(dir, n, batch) ==
  [k \in (DOMAIN dir) \cup {n} |-> IF k = n THEN batch ELSE dir[k]]

\* newBatch of storeEventDetails; a batch file without sellPrice or
\* BlockNumberOnWhichBitsWereSold is one where they are 0
NewBatch(bitAmount, blockNumber, purchasePrice) ==
  [InitialBatchAmount |-> bitAmount,
   remainingBatchAmount |-> bitAmount,
   purchasePrice |-> purchasePrice,
   sellPrice |-> 0,
   BlockNumOnWhichBitsWereBought |-> blockNumber,
   BlockNumberOnWhichBitsWereSold |-> 0]

\* a Trade event as extractTradeEventDetails passes it on
TradeEvent(isBuy, bitAmount, blockNumber) ==
  [isBuy |-> isBuy, bitAmount |-> bitAmount, blockNumber |-> blockNumber,
   ethAmount |-> UnitPrice * bitAmount,
   protocolEthAmount |-> bitAmount,
   gamerEthAmount |-> bitAmount]

\* a faulty variant of NotEnoughBits: the remaining amount is not checked
NotEnoughBitsNever(remaining, bitsToDeduct) == FALSE
\* updateGamerBatch: "batch.remainingBatchAmount < bitsToDeduct"
NotEnoughBits(remaining, bitsToDeduct) == remaining < bitsToDeduct

\* addGamerBatch: the next batch number is taken from the files of the gamer's
\* directory; a batch bought before the last one is refused
AddGamerBatch(led, batch) ==
  LET nums == DOMAIN led.holders
      batchNumber == IF nums # {} THEN Max(nums) + 1 ELSE 1
  IN IF /\ nums # {}
        /\ batch.BlockNumOnWhichBitsWereBought
             < led.holders[Max(nums)].BlockNumOnWhichBitsWereBought
       THEN [led EXCEPT !.error = "INVALID_BLOCK_NUMBER"]
       ELSE [led EXCEPT !.holders = WriteFile(led.holders, batchNumber, batch)]

\* a faulty variant of SoldBlockDecreases: the recorded sale block is not
\* looked at
SoldBlockUnchecked(soldBefore, blockNumberOnWhichBitsWereSold) == FALSE
\* updateGamerBatch: a sale block is recorded (0: none) and it is above the
\* new one
SoldBlockDecreases(soldBefore, blockNumberOnWhichBitsWereSold) ==
  soldBefore # 0 /\ soldBefore > blockNumberOnWhichBitsWereSold

\* updateGamerBatch: checks, deduction, and the move to the archive of a batch
\* left with nothing
UpdateGamerBatch(led, batchNumber, bitsToDeduct, blockNumberOnWhichBitsWereSold, sellPrice) ==
  IF batchNumber \notin DOMAIN led.holders
    THEN [led EXCEPT !.error = "BATCH_NOT_FOUND"]
  ELSE
  LET batch == led.holders[batchNumber]
      updated == [batch EXCEPT
                    !.sellPrice = @ + sellPrice,
                    !.remainingBatchAmount = @ - bitsToDeduct,
                    !.BlockNumberOnWhichBitsWereSold = blockNumberOnWhichBitsWereSold]
  IN IF NotEnoughBits(batch.remainingBatchAmount, bitsToDeduct)
       THEN [led EXCEPT !.error = "INSUFFICIENT_BITS"]
     ELSE IF batch.BlockNumOnWhichBitsWereBought > blockNumberOnWhichBitsWereSold
       THEN [led EXCEPT !.error = "INVALID_BLOCK_NUMBER"]
     ELSE IF SoldBlockDecreases(batch.BlockNumberOnWhichBitsWereSold,
                                blockNumberOnWhichBitsWereSold)
       THEN [led EXCEPT !.error = "BLOCK_NUMBER_NOT_INCREMENTED"]
     ELSE IF updated.remainingBatchAmount = 0
       THEN [led EXCEPT !.holders = RemoveFile(led.holders, batchNumber),
                        !.archive = WriteFile(led.archive, batchNumber, updated)]
       ELSE [led EXCEPT !.holders = WriteFile(led.holders, batchNumber, updated)]

\* getBatchFilesInDescendingOrder / getBatchFilesInAscendingOrder: the batch
\* files of the directory sorted by their batch number
RECURSIVE GetBatchFilesInDescendingOrder(_)
GetBatchFilesInDescendingOrder(nums) ==
  IF nums = {} THEN <<>>
  ELSE <<Max(nums)>> \o GetBatchFilesInDescendingOrder(nums \ {Max(nums)})

RECURSIVE GetBatchFilesInAscendingOrder(_)
GetBatchFilesInAscendingOrder(nums) ==
  IF nums = {} THEN <<>>
  ELSE <<Min(nums)>> \o GetBatchFilesInAscendingOrder(nums \ {Min(nums)})

\* a faulty variant of SellOrder: the newest lot is consumed first
SellOrderNewestFirst(nums) == GetBatchFilesInDescendingOrder(nums)
\* the batch files the sell branch of storeEventDetails walks, in its order
SellOrder(nums) == GetBatchFilesInAscendingOrder(nums)

\* the for-loop of the sell branch from position i of batchFiles, with
\* bitsToDeduct still to take; led.left is bitsToDeduct when the loop ends
RECURSIVE SellWalk(_, _, _, _, _, _)
SellWalk(led, batchFiles, i, bitsToDeduct, blockNumber, sellPrice) ==
  IF i > Len(batchFiles) THEN [led EXCEPT !.left = bitsToDeduct]
  ELSE
  LET batchNumber == batchFiles[i]
  IN IF batchNumber \notin DOMAIN led.holders
       THEN [led EXCEPT !.error = "READ_BATCH_FAILED", !.left = bitsToDeduct]
     ELSE
     LET batch == led.holders[batchNumber]
     IN IF batch.remainingBatchAmount >= bitsToDeduct
          THEN [UpdateGamerBatch(led, batchNumber, bitsToDeduct, blockNumber,
                                 sellPrice)
                  EXCEPT !.left = 0]
          ELSE LET after == UpdateGamerBatch(led, batchNumber,
                                batch.remainingBatchAmount, blockNumber,
                                sellPrice)
               IN IF after.error # "none"
                    THEN [after EXCEPT !.left = bitsToDeduct - batch.remainingBatchAmount]
                    ELSE SellWalk(after, batchFiles, i + 1,
                                  bitsToDeduct - batch.remainingBatchAmount,
                                  blockNumber, sellPrice)

\* storeEventDetails on the ledger: the store it leaves and the error it throws
StoreEventDetails(holders, archive, ev) ==
  LET led == [holders |-> holders, archive |-> archive, error |-> "none", left |-> 0]
  IN IF ev.bitAmount = 0 THEN led
     ELSE IF ev.isBuy
       THEN AddGamerBatch(led, NewBatch(ev.bitAmount, ev.blockNumber,
                            ev.ethAmount + ev.protocolEthAmount
                              + ev.gamerEthAmount))
     ELSE LET after == SellWalk(led, SellOrder(DOMAIN holders), 1,
                                ev.bitAmount, ev.blockNumber, ev.ethAmount)
          IN IF after.error = "none" /\ after.left > 0
               THEN [after EXCEPT !.error = "INSUFFICIENT_BITS"]
               ELSE after

EmptyDir == [k \in {} |-> 0]

\* history of a direct call: the operation, whether it asked an existing lot
\* for more bits than it had left, the error thrown, and whether every lot
\* is as it was before the call
NoCall == [op |-> "none", overdraw |-> FALSE, error |-> "none",
           unchanged |-> TRUE]

LedgerInit ==
  /\ holdersDir = EmptyDir
  /\ archiveDir = EmptyDir
  /\ chainEvents = <<>>
  /\ indexedCount = 0
  /\ chainBits = 0
  /\ indexerUp = TRUE
  /\ lastCall = NoCall
  /\ startBlock = FirstBlock
  /\ indexingCaughtUp = FALSE
  /\ phase = "catchup"
  /\ lastEndBlock = 0
  /\ fetchEnd = FirstBlock - 1
  /\ evaluated = {}
  /\ appliedBefore = 0
  /\ shortSell = 0

\* the block of a new Trade event: a later block than the last event's, or
\* the same block as long as queryFilter has not handed that block's last
\* event to the indexer (a block is mined with all its events)
NextBlocks ==
  IF chainEvents = <<>> THEN {FirstBlock}
  ELSE LET b == chainEvents[Len(chainEvents)].blockNumber
       IN {c \in {b, b + BlockStep} :
             /\ c <= LastBlock
             /\ c = b => indexedCount < Len(chainEvents)}

\* the contract executes a buyBits of the holder and emits Trade(isBuy = true)
ChainBuy(amount, block) ==
  /\ Len(chainEvents) < MaxEvents
  /\ chainEvents' = Append(chainEvents, TradeEvent(TRUE, amount, block))
  /\ chainBits' = chainBits + amount
  /\ UNCHANGED <<holdersDir, archiveDir, indexedCount, indexerUp, lastCall,
                 startBlock>>
  /\ UNCHANGED notLedger

\* the contract executes a sellBits of the holder, who owns the bits sold, and
\* emits Trade(isBuy = false)
ChainSell(amount, block) ==
  /\ Len(chainEvents) < MaxEvents
  /\ amount <= chainBits
  /\ chainEvents' = Append(chainEvents, TradeEvent(FALSE, amount, block))
  /\ chainBits' = chainBits - amount
  /\ UNCHANGED <<holdersDir, archiveDir, indexedCount, indexerUp, lastCall,
                 startBlock>>
  /\ UNCHANGED notLedger

\* a faulty variant of RulesLit: the rules are evaluated for every event
RulesLitAlways(caughtUp) == TRUE
\* storeEventDetails: if (this.indexingCaughtUp)
RulesLit(caughtUp) == caughtUp

\* fetchEvents: the next event of the log goes through storeEventDetails,
\* which stores it and then, when the rules are lit, evaluates the buy and
\* the sell rules for it; an error it throws ends the indexing process
IndexEvent ==
  /\ indexerUp
  /\ indexedCount < Len(chainEvents)
  /\ LET ev == chainEvents[indexedCount + 1]
         after == StoreEventDetails(holdersDir, archiveDir, ev)
     IN /\ holdersDir' = after.holders
        /\ archiveDir' = after.archive
        /\ indexerUp' = (after.error = "none")
        /\ evaluated' = IF /\ ev.bitAmount # 0
                           /\ after.error = "none"
                           /\ RulesLit(indexingCaughtUp)
                          THEN evaluated \cup {indexedCount + 1}
                          ELSE evaluated
        /\ shortSell' = IF after.error = "INSUFFICIENT_BITS"
                          THEN indexedCount + 1 ELSE shortSell
  /\ indexedCount' = indexedCount + 1
  /\ UNCHANGED <<chainEvents, chainBits, lastCall, startBlock>>
  /\ UNCHANGED <<indexingCaughtUp, phase, lastEndBlock, fetchEnd,
                 appliedBefore>>
  /\ UNCHANGED notIndexer

LedgerNext ==
  \/ \E a \in BuyAmounts : \E b \in NextBlocks : ChainBuy(a, b)
  \/ \E a \in SellAmounts : \E b \in NextBlocks : ChainSell(a, b)
  \/ IndexEvent

\* a faulty variant of GetLatestBlockNum: the blocks of the sales are not read
GetLatestBoughtBlockNum(holders, archive) ==
  LET lots == {holders[k] : k \in DOMAIN holders}
                \cup {archive[k] : k \in DOMAIN archive}
  IN IF lots = {} THEN 0
     ELSE Max({lot.BlockNumOnWhichBitsWereBought : lot \in lots})
\* getLatestBlockNum: the highest block number over the batch files of the
\* holders and the archive directories, 0 when there is none
GetLatestBlockNum(holders, archive) ==
  LET lots == {holders[k] : k \in DOMAIN holders}
                \cup {archive[k] : k \in DOMAIN archive}
  IN Max({0} \cup {lot.BlockNumOnWhichBitsWereBought : lot \in lots}
             \cup {lot.BlockNumberOnWhichBitsWereSold : lot \in lots})

\* the indexing process stops between two events: it is killed, or it exits
\* after a provider error (fetchEventsPeriodically, process.exit(1))
IndexerStops ==
  /\ indexerUp
  /\ indexerUp' = FALSE
  /\ UNCHANGED <<holdersDir, archiveDir, chainEvents, indexedCount, chainBits,
                 lastCall, startBlock>>
  /\ UNCHANGED pvars
  /\ UNCHANGED notIndexer

\* provider.getBlockNumber(), as far as the modelled Trade events tell: the
\* block of the last one
GetBlockNumber ==
  IF chainEvents = <<>> THEN FirstBlock - 1
  ELSE chainEvents[Len(chainEvents)].blockNumber

\* catchupIndex of a restarted process (a new ChainIndexer, the rules not
\* lit): fetching starts after the latest block of the ledger, or at
\* config.startBlock when the ledger has none; queryFilter returns the events
\* of the blocks from there on
CatchupIndex ==
  /\ ~indexerUp
  /\ LET latestIndexedBlockNum == GetLatestBlockNum(holdersDir, archiveDir)
         from == IF latestIndexedBlockNum > 0
                   THEN latestIndexedBlockNum + 1
                   ELSE FirstBlock
     IN /\ startBlock' = from
        /\ indexedCount' =
             Cardinality({i \in 1..Len(chainEvents) :
                            chainEvents[i].blockNumber < from})
  /\ indexerUp' = TRUE
  /\ indexingCaughtUp' = FALSE
  /\ phase' = "catchup"
  /\ fetchEnd' = GetBlockNumber
  /\ evaluated' = {}
  /\ appliedBefore' = 0
  /\ UNCHANGED <<holdersDir, archiveDir, chainEvents, chainBits, lastCall>>
  /\ UNCHANGED <<lastEndBlock, shortSell>>
  /\ UNCHANGED notIndexer

\* the chain and an indexing process that stops and is restarted
IndexerNext ==
  \/ \E a \in BuyAmounts : \E b \in NextBlocks : ChainBuy(a, b)
  \/ \E a \in SellAmounts : \E b \in NextBlocks : ChainSell(a, b)
  \/ IndexEvent
  \/ IndexerStops
  \/ CatchupIndex

\* no event of the range being fetched is left to store
RangeDone ==
  IF indexedCount = Len(chainEvents) THEN TRUE
  ELSE chainEvents[indexedCount + 1].blockNumber > fetchEnd

\* the blocks the chain may put its next Trade event in: none that a fetch
\* has asked for already
FreshBlocks == {b \in NextBlocks : b > lastEndBlock /\ b > fetchEnd}

\* the block numbers provider.getBlockNumber() may return to a periodic
\* fetch: the chain has gone on to the last Trade event's block, or
\* catchUpDelta blocks beyond
BlockNumbers ==
  LET h == Max({lastEndBlock, GetBlockNumber})
  IN {b \in {h, h + catchUpDelta} : b <= LastBlock + catchUpDelta}

\* fetchEvents, one event of the range asked for
FetchedEvent ==
  /\ phase \in {"catchup", "fetch"}
  /\ ~RangeDone
  /\ IndexEvent

\* catchupIndex returns endBlock, which becomes lastEndBlock
CatchupReturns ==
  /\ indexerUp
  /\ phase = "catchup"
  /\ RangeDone
  /\ lastEndBlock' = fetchEnd
  /\ phase' = "idle"
  /\ UNCHANGED <<indexingCaughtUp, fetchEnd, evaluated, appliedBefore,
                 shortSell>>
  /\ UNCHANGED lvars
  /\ UNCHANGED notIndexer

\* fetch of fetchEventsPeriodically, up to the call of fetchEvents: with no
\* new block the rules are lit at once
Fetch(endBlock) ==
  /\ indexerUp
  /\ phase = "idle"
  /\ IF lastEndBlock + 1 <= endBlock
       THEN /\ phase' = "fetch"
            /\ fetchEnd' = endBlock
            /\ UNCHANGED <<indexingCaughtUp, appliedBefore>>
       ELSE /\ indexingCaughtUp' = TRUE
            /\ appliedBefore' = IF indexingCaughtUp THEN appliedBefore
                                 ELSE indexedCount
            /\ UNCHANGED <<phase, fetchEnd>>
  /\ UNCHANGED <<lastEndBlock, evaluated, shortSell>>
  /\ UNCHANGED lvars
  /\ UNCHANGED notIndexer

\* fetch of fetchEventsPeriodically after fetchEvents: a range shorter than
\* catchUpDelta lights the rules
FetchReturns ==
  /\ indexerUp
  /\ phase = "fetch"
  /\ RangeDone
  /\ IF fetchEnd - (lastEndBlock + 1) < catchUpDelta
       THEN /\ indexingCaughtUp' = TRUE
            /\ appliedBefore' = IF indexingCaughtUp THEN appliedBefore
                                 ELSE indexedCount
       ELSE UNCHANGED <<indexingCaughtUp, appliedBefore>>
  /\ lastEndBlock' = fetchEnd
  /\ phase' = "idle"
  /\ UNCHANGED <<fetchEnd, evaluated, shortSell>>
  /\ UNCHANGED lvars
  /\ UNCHANGED notIndexer

\* the purchases on chain and the fetch loop of an indexing process that
\* stops and is restarted
PhaseNext ==
  \/ \E a \in BuyAmounts : \E b \in FreshBlocks : ChainBuy(a, b)
  \/ FetchedEvent
  \/ CatchupReturns
  \/ \E b \in BlockNumbers : Fetch(b)
  \/ FetchReturns
  \/ IndexerStops
  \/ CatchupIndex

\* the blocks a caller of the store may name
Blocks == {b \in FirstBlock..LastBlock : (b - FirstBlock) % BlockStep = 0}

\* a caller adds a lot: store.addGamerBatch(holder, gamer, batch)
AddGamerBatchCall(amount, block) ==
  /\ Cardinality(DOMAIN holdersDir \cup DOMAIN archiveDir) < MaxLots
  /\ LET led == [holders |-> holdersDir, archive |-> archiveDir,
                 error |-> "none", left |-> 0]
         after == AddGamerBatch(led, NewBatch(amount, block, UnitPrice * amount))
     IN /\ holdersDir' = after.holders
        /\ archiveDir' = after.archive
        /\ lastCall' = [op |-> "addGamerBatch", overdraw |-> FALSE,
                        error |-> after.error,
                        unchanged |-> /\ after.holders = holdersDir
                                      /\ after.archive = archiveDir]
  /\ UNCHANGED <<chainEvents, indexedCount, chainBits, indexerUp, startBlock>>
  /\ UNCHANGED notLedger

\* a caller deducts from a lot: store.updateGamerBatch(holder, gamer,
\* batchNumber, bitsToDeduct, blockNumberOnWhichBitsWereSold, sellPrice)
UpdateGamerBatchCall(batchNumber, bitsToDeduct, block) ==
  /\ LET led == [holders |-> holdersDir, archive |-> archiveDir,
                 error |-> "none", left |-> 0]
         after == UpdateGamerBatch(led, batchNumber, bitsToDeduct, block,
                                   UnitPrice * bitsToDeduct)
     IN /\ holdersDir' = after.holders
        /\ archiveDir' = after.archive
        /\ lastCall' = [op |-> "updateGamerBatch",
                        overdraw |->
                          /\ batchNumber \in DOMAIN holdersDir
                          /\ bitsToDeduct
                               > holdersDir[batchNumber].remainingBatchAmount,
                        error |-> after.error,
                        unchanged |-> /\ after.holders = holdersDir
                                      /\ after.archive = archiveDir]
  /\ UNCHANGED <<chainEvents, indexedCount, chainBits, indexerUp, startBlock>>
  /\ UNCHANGED notLedger

\* the store under direct calls, as the store's own test script makes them
StoreNext ==
  \/ \E a \in BuyAmounts : \E b \in Blocks : AddGamerBatchCall(a, b)
  \/ \E n \in 1..MaxLots : \E a \in SellAmounts : \E b \in Blocks :
       UpdateGamerBatchCall(n, a, b)

(***************************************************************************)
(*   Key fleet: TxGofer (txGofer.js), the trade gofers (buyGofer.js,       *)
(*   sellGofer.js, tradeGofer.js, buy.js, sell.js) and the indexer's       *)
(*   markMinedOrder (ChainIndexer.js)                                      *)
(*                                                                         *)
(*   Times are in seconds.  The execution process is one thread: it        *)
(*   handles one proposal at a time and stays in tx.wait() until the       *)
(*   transaction it sent is mined.  The indexing process is another        *)
(*   process; the two meet in the pending-order files only.                *)
(***************************************************************************)
Holders == 0..(NumHolders - 1)
TxHashes == 1..MaxTx

NoJob == [type |-> "none", holder |-> 0, tx |-> 0]

\* the two directions of an order
Dirs == {"BUY", "SELL"}

\* no proposal taken by the gofer
NoProposal == [id |-> 0, dir |-> "none", ordered |-> 0, price |-> 0,
               balance |-> 0,
               quantity |-> 0, timestamp |-> 0, at |-> 0]

\* fs.pathExists(data/orders/<address>/pendingOrder.json)
PathExists(files, h) == h \in DOMAIN files

\* provider.getTransactionCount(address, 'latest'): the mined transactions
GetTransactionCount(h) ==
  Cardinality({t \in 1..Len(txs) : txs[t].sender = h /\ txs[t].mined})

\* a faulty variant of Expired: an order of no age counts as expired
ExpiredNever(age) == FALSE
\* a faulty variant of Expired: an order of any age counts as expired
ExpiredAtOnce(age) == age >= 0
\* refreshPendingOrder: now - orderTimestamp > maxPendingInSeconds * 1000
Expired(age) == age > maxPendingInSeconds

\* a faulty variant of NonceSuperseded: the recorded nonce itself counts
NonceReached(currentNonce, nonce) == currentNonce >= nonce
\* refreshPendingOrder: currentNonce > pendingOrder.nonce
NonceSuperseded(currentNonce, nonce) == currentNonce > nonce

\* a faulty variant of RefreshPendingOrder: the order is returned whenever
\* there is a file, and no file is ever removed
RefreshKeepsFile(files, h) == [files |-> files, order |-> PathExists(files, h)]

\* refreshPendingOrder: the file is removed and null returned when it carries
\* the mined mark, is expired, or the chain nonce is past the recorded one
RefreshPendingOrder(files, h) ==
  IF ~PathExists(files, h)
    THEN [files |-> files, order |-> FALSE]
  ELSE IF files[h].mined
    THEN [files |-> RemoveFile(files, h), order |-> FALSE]
  ELSE IF Expired(now - files[h].timestamp)
    THEN [files |-> RemoveFile(files, h), order |-> FALSE]
  ELSE IF NonceSuperseded(GetTransactionCount(h), files[h].nonce)
    THEN [files |-> RemoveFile(files, h), order |-> FALSE]
  ELSE [files |-> files, order |-> TRUE]

\* a faulty variant of IsInLowBalCache: the cache is not looked at
LowBalCacheIgnored(cache, h) == FALSE
\* isInLowBalCache: an entry of 0 is no entry (!this.lowBalanceCache[address])
IsInLowBalCache(cache, h) ==
  IF cache[h] = 0 THEN FALSE ELSE now - cache[h] < lowBalCacheTTLMinutes * 60

CacheLowBalAddress(cache, h) == [cache EXCEPT ![h] = now]

\* a faulty variant of StartIndex: the scan always starts at index 0
StartAtZero(cursor) == NumHolders - 1
\* the index both loops of selectNextFreeKeySlot start from
StartIndex(cursor) == cursor

\* a faulty variant of NewCursor: the cursor is not moved
CursorStays(cursor, index) == cursor
\* this.lastChosenFleetAddrIndex = index
NewCursor(cursor, index) == index

\* one loop of selectNextFreeKeySlot, from its i-th iteration on: the first
\* loop (refresh = FALSE) looks at the holders without a file, the second one
\* (refresh = TRUE) refreshes each holder's pending order first
RECURSIVE ScanPass(_, _, _, _, _)
ScanPass(files, cache, index, i, refresh) ==
  IF i = NumHolders
    THEN [found |-> FALSE, index |-> index, files |-> files, cache |-> cache]
  ELSE
  LET idx == (index + 1) % NumHolders
      after == IF refresh THEN RefreshPendingOrder(files, idx).files ELSE files
  IN IF PathExists(after, idx)
       THEN ScanPass(after, cache, idx, i + 1, refresh)
     ELSE IF IsInLowBalCache(cache, idx)
       THEN ScanPass(after, cache, idx, i + 1, refresh)
     ELSE IF funded[idx]
       THEN [found |-> TRUE, index |-> idx, files |-> after, cache |-> cache]
     ELSE ScanPass(after, CacheLowBalAddress(cache, idx), idx, i + 1, refresh)

\* selectNextFreeKeySlot: the index returned (-1: none), the new cursor, and
\* the files and the cache as the two loops leave them
SelectNextFreeKeySlot(files, cache, cursor) ==
  LET p1 == ScanPass(files, cache, StartIndex(cursor), 0, FALSE)
      p2 == ScanPass(p1.files, p1.cache, StartIndex(cursor), 0, TRUE)
  IN IF p1.found
       THEN [result |-> p1.index, cursor |-> NewCursor(cursor, p1.index),
             files |-> p1.files, cache |-> p1.cache]
     ELSE IF p2.found
       THEN [result |-> p2.index, cursor |-> NewCursor(cursor, p2.index),
             files |-> p2.files, cache |-> p2.cache]
     ELSE [result |-> -1, cursor |-> cursor,
           files |-> p2.files, cache |-> p2.cache]

\* a faulty variant of AfterSendTransaction: the callback is not called
SkipCallback(hasCallback) == "waiting"
\* buyBits / sellBits after sendTransaction: the callback, then tx.wait()
AfterSendTransaction(hasCallback) == IF hasCallback THEN "callback" ELSE "waiting"

\* history: the results of the last selectNextFreeKeySlot calls that were made
\* with no holder having a pending-order file and every holder funded
Window(s) == IF Len(s) > NumHolders THEN Tail(s) ELSE s

FleetInit ==
  /\ now = TimeStep
  /\ funded = [h \in Holders |-> TRUE]
  /\ orders = EmptyDir
  /\ txs = <<>>
  /\ indexed = {}
  /\ marking = 0
  /\ lastChosenFleetAddrIndex = 0
  /\ lowBalanceCache = [h \in Holders |-> 0]
  /\ pc = "idle"
  /\ job = NoJob
  /\ recorded = [t \in TxHashes |-> 0]
  /\ streak = <<>>

\* time passes
Tick ==
  /\ now + TimeStep <= MaxTime
  /\ now' = now + TimeStep
  /\ UNCHANGED <<funded, orders, txs, indexed, marking,
                 lastChosenFleetAddrIndex, lowBalanceCache, pc, job,
                 recorded, streak>>
  /\ UNCHANGED notFleet

\* the token or gas balance of a holder crosses the minimum, either way
BalanceChange(h) ==
  /\ funded' = [funded EXCEPT ![h] = ~@]
  /\ UNCHANGED <<now, orders, txs, indexed, marking,
                 lastChosenFleetAddrIndex, lowBalanceCache, pc, job,
                 recorded, streak>>
  /\ UNCHANGED notFleet

\* processBuyAlerts, for one proposal: selectNextFreeKeySlot
BuySelect ==
  /\ pc = "idle"
  /\ LET s == SelectNextFreeKeySlot(orders, lowBalanceCache,
                                     lastChosenFleetAddrIndex)
         allFree == \A h \in Holders : ~PathExists(orders, h) /\ funded[h]
         clean == \A h \in Holders : ~IsInLowBalCache(lowBalanceCache, h)
     IN /\ orders' = s.files
        /\ lowBalanceCache' = s.cache
        /\ lastChosenFleetAddrIndex' = s.cursor
        /\ IF s.result = -1
             THEN pc' = "idle" /\ job' = NoJob
             ELSE /\ pc' = "selected"
                  /\ job' = [type |-> "BUY", holder |-> s.result, tx |-> 0]
        /\ streak' = IF allFree
                       THEN Window(Append(streak, [index |-> s.result,
                                                   clean |-> clean]))
                       ELSE <<>>
  /\ UNCHANGED <<now, funded, txs, indexed, marking, recorded>>
  /\ UNCHANGED notFleet

\* processSellAlerts, for one proposal bound to holder h: a holder with a
\* pending order is refreshed, and the proposal is left for a later cycle if
\* the order is still there
SellPick(h) ==
  /\ pc = "idle"
  /\ LET r == IF PathExists(orders, h)
                THEN RefreshPendingOrder(orders, h).files ELSE orders
     IN /\ orders' = r
        /\ IF PathExists(r, h)
             THEN pc' = "idle" /\ job' = NoJob
             ELSE /\ pc' = "selected"
                  /\ job' = [type |-> "SELL", holder |-> h, tx |-> 0]
  /\ UNCHANGED <<now, funded, txs, indexed, marking,
                 lastChosenFleetAddrIndex, lowBalanceCache, recorded, streak>>
  /\ UNCHANGED notFleet

\* the proposal is given up before a transaction exists: not enough tokens
\* for the cost, not enough gas, no bits left to sell, or sendTransaction
\* throws
Abort ==
  /\ pc = "selected"
  /\ pc' = "idle"
  /\ job' = NoJob
  /\ UNCHANGED <<now, funded, orders, txs, indexed, marking,
                 lastChosenFleetAddrIndex, lowBalanceCache, recorded, streak>>
  /\ UNCHANGED notFleet

\* buyBits / sellBits: wallet.sendTransaction resolves, the node has accepted
\* the transaction
SendTransaction ==
  /\ pc = "selected"
  /\ Len(txs) < MaxTx
  /\ txs' = Append(txs, [sender |-> job.holder, mined |-> FALSE,
                         bits |-> cur.quantity])
  /\ job' = [job EXCEPT !.tx = Len(txs) + 1]
  /\ pc' = AfterSendTransaction(TRUE)
  /\ UNCHANGED <<now, funded, orders, indexed, marking,
                 lastChosenFleetAddrIndex, lowBalanceCache, recorded, streak>>
  /\ UNCHANGED notFleet

\* a faulty variant of AwaitReceipt: the receipt is not awaited, buyBits /
\* sellBits return once the callback is done
ReceiptNotAwaited(tx) == "idle"
\* buyBits / sellBits: const receipt = await tx.wait()
AwaitReceipt(tx) == "waiting"

\* the callback: recordPendingOrder reads the nonce and writes the file (an
\* existing file keeps its mode)
RecordPendingOrder ==
  /\ pc = "callback"
  /\ orders' = WriteFile(orders, job.holder,
                 [orderType |-> job.type,
                  numberOfBits |-> cur.quantity,
                  txHash |-> job.tx,
                  nonce |-> GetTransactionCount(job.holder),
                  timestamp |-> now,
                  mined |-> IF PathExists(orders, job.holder)
                              THEN orders[job.holder].mined ELSE FALSE])
  /\ recorded' = [recorded EXCEPT ![job.tx] = @ + 1]
  /\ pc' = AwaitReceipt(job.tx)
  /\ streak' = <<>>
  /\ UNCHANGED <<now, funded, txs, indexed, marking,
                 lastChosenFleetAddrIndex, lowBalanceCache, job>>
  /\ UNCHANGED notFleet

\* the callback throws (the nonce cannot be read): the catch of buyBits /
\* sellBits returns "error" and the gofer goes on to the next proposal
RecordFails ==
  /\ pc = "callback"
  /\ pc' = "idle"
  /\ job' = NoJob
  /\ UNCHANGED <<now, funded, orders, txs, indexed, marking,
                 lastChosenFleetAddrIndex, lowBalanceCache, recorded, streak>>
  /\ UNCHANGED notFleet

\* tx.wait() resolves once the transaction is mined
WaitReturns ==
  /\ pc = "waiting"
  /\ txs[job.tx].mined
  /\ pc' = "idle"
  /\ job' = NoJob
  /\ UNCHANGED <<now, funded, orders, txs, indexed, marking,
                 lastChosenFleetAddrIndex, lowBalanceCache, recorded, streak>>
  /\ UNCHANGED notFleet

\* the execution process stops and is started again: new BuyGofer, SellGofer
\* and TxGofer instances (no alert held, empty caches, the cursor at 0); the
\* files and the transactions in flight stay
Restart ==
  /\ pc' = "idle"
  /\ job' = NoJob
  /\ lastChosenFleetAddrIndex' = 0
  /\ lowBalanceCache' = [h \in Holders |-> 0]
  /\ streak' = <<>>
  /\ alerts' = [d \in Dirs |-> 0]
  /\ gpc' = "sleep"
  /\ todo' = <<>>
  /\ observed' = FALSE
  /\ cur' = NoProposal
  /\ lowBalCache' = [h \in Holders |-> 0]
  /\ UNCHANGED <<now, funded, orders, txs, indexed, marking, recorded>>
  /\ UNCHANGED <<proposals, proposed, writing, alertFiles, haltFile>>
  /\ UNCHANGED notGofer

\* the chain mines a transaction; those of one key are mined in nonce order
Mine(t) ==
  /\ t \in 1..Len(txs)
  /\ ~txs[t].mined
  /\ \A u \in 1..(t - 1) : txs[u].sender = txs[t].sender => txs[u].mined
  /\ txs' = [txs EXCEPT ![t].mined = TRUE]
  /\ UNCHANGED <<now, funded, orders, indexed, marking,
                 lastChosenFleetAddrIndex, lowBalanceCache, pc, job,
                 recorded, streak>>
  /\ UNCHANGED notFleet

\* a faulty variant of HashMatches: any pending order of the holder matches
HashIgnored(files, h, txHash) == PathExists(files, h)
\* markMinedOrder: the file exists and pendingOrder.txHash === txHash
HashMatches(files, h, txHash) ==
  IF PathExists(files, h) THEN files[h].txHash = txHash ELSE FALSE

\* storeEventDetails -> markMinedOrder, up to the comparison of the hashes
MarkMinedRead(t) ==
  /\ marking = 0
  /\ t \in 1..Len(txs)
  /\ txs[t].mined
  /\ t \notin indexed
  /\ \A u \in 1..(t - 1) : txs[u].sender = txs[t].sender => u \in indexed
  /\ indexed' = indexed \cup {t}
  /\ marking' = IF HashMatches(orders, txs[t].sender, t) THEN t ELSE 0
  /\ UNCHANGED <<now, funded, orders, txs,
                 lastChosenFleetAddrIndex, lowBalanceCache, pc, job,
                 recorded, streak>>
  /\ UNCHANGED notFleet

\* markMinedOrder: fs.chmod of the holder's pending-order file
MarkMinedChmod ==
  /\ marking # 0
  /\ LET h == txs[marking].sender
     IN orders' = IF PathExists(orders, h)
                    THEN [orders EXCEPT ![h].mined = TRUE] ELSE orders
  /\ marking' = 0
  /\ UNCHANGED <<now, funded, txs, indexed,
                 lastChosenFleetAddrIndex, lowBalanceCache, pc, job,
                 recorded, streak>>
  /\ UNCHANGED notFleet

\* the execution process (buys and sells, failures and restarts) and the
\* indexing process, with every key funded throughout
FleetNext ==
  \/ Tick
  \/ BuySelect
  \/ \E h \in Holders : SellPick(h)
  \/ Abort
  \/ SendTransaction
  \/ RecordPendingOrder
  \/ RecordFails
  \/ WaitReturns
  \/ Restart
  \/ \E t \in TxHashes : Mine(t)
  \/ \E t \in TxHashes : MarkMinedRead(t)
  \/ MarkMinedChmod

\* the buy path of an execution process that stops and is started again, the
\* indexing process, and balances that change
ReclaimNext ==
  \/ Tick
  \/ \E h \in Holders : BalanceChange(h)
  \/ BuySelect
  \/ SendTransaction
  \/ RecordPendingOrder
  \/ WaitReturns
  \/ Restart
  \/ \E t \in TxHashes : Mine(t)
  \/ \E t \in TxHashes : MarkMinedRead(t)
  \/ MarkMinedChmod

\* the buy path of an execution process that stays up, the indexing process,
\* and balances that change
SlotNext ==
  \/ Tick
  \/ \E h \in Holders : BalanceChange(h)
  \/ BuySelect
  \/ Abort
  \/ SendTransaction
  \/ RecordPendingOrder
  \/ WaitReturns
  \/ \E t \in TxHashes : Mine(t)
  \/ \E t \in TxHashes : MarkMinedRead(t)
  \/ MarkMinedChmod

(***************************************************************************)
(* Order proposals of one gamer: proposeOrder of the producer's TxGofer    *)
(* (txGofer.js), and the loop of the execution process (tradeGofer.js)     *)
(* with its buy and sell cycles (buyGofer.js, sellGofer.js).  A proposal   *)
(* that passes a cycle's checks goes on through buyBits / sellBits (the    *)
(* actions from Abort and SendTransaction to WaitReturns above).           *)
(***************************************************************************)
OrderQuantities == {SmallQuantity, LargeQuantity}
BitsBalances == {0, SmallQuantity, LargeQuantity}

\* getBuyPrice: what the contract returns for the gamer
BuyPrice == UnitPrice
\* getERC20Balance of a holder: nothing, the cost of a small order, the cost
\* of a large order
FullBalance == BuyPrice * LargeQuantity
WelsBalances == {0, BuyPrice * SmallQuantity, FullBalance}
\* the holders the sell rules find bits with
SellHolders == {h \in Holders : h < NumSellHolders}

NotWriting == [id |-> 0, dir |-> "none", timestamp |-> 0, stage |-> "none"]

\* fs.readdir of the gamer's proposal directory: the file names are timestamps
RECURSIVE ReadDir(_)
ReadDir(ids) ==
  IF ids = {} THEN <<>>
  ELSE <<Min(ids)>> \o ReadDir(ids \ {Min(ids)})

OrderFiles(dir) == ReadDir({i \in DOMAIN proposals : proposals[i].dir = dir})

\* fs.readJson(orderFilePath) returns the order: the file is there and
\* fs.writeJson has written its content
Readable(files, id) == id \in DOMAIN files /\ files[id].readable

\* a faulty variant of Stale: no order is ever too old
StaleNever(age, minutes) == FALSE
\* orderAgeMinutes > staleBuyOrderMinutes (staleSellOrderMinutes), the age
\* being in seconds here
Stale(age, minutes) == age > minutes * 60

\* a faulty variant of Halted: the halt file is not looked at
HaltIgnored(present) == FALSE
\* fs.pathExists(haltFilePath)
Halted(present) == present

\* a faulty variant of SellQuantity: the order's quantity is kept
SellQuantityAsOrdered(quantity, bitsBalance) == quantity
\* bitsBalance.lt(orderData.quantity): orderData.quantity = bitsBalance
SellQuantity(quantity, bitsBalance) ==
  IF bitsBalance < quantity THEN bitsBalance ELSE quantity

\* the alert the gofer holds for the gamer after it read the alert directory:
\* the last alert file of the gamer, or the one it held before
AlertsRead(dir) ==
  LET files == {a \in alertFiles : a.dir = dir}
  IN IF files = {} THEN alerts[dir]
     ELSE Max({a.timestamp : a \in files})

\* the sell gofer's own low-balance cache
IsInSellLowBalCache(h) ==
  lowBalCache[h] # 0 /\ now - lowBalCache[h] < lowBalCacheTTLMinutes * 60

GoferInit ==
  /\ proposals = EmptyDir
  /\ proposed = 0
  /\ writing = NotWriting
  /\ alertFiles = {}
  /\ alerts = [d \in Dirs |-> 0]
  /\ haltFile = [d \in Dirs |-> FALSE]
  /\ gpc = "sleep"
  /\ todo = <<>>
  /\ observed = FALSE
  /\ cur = NoProposal
  /\ lowBalCache = [h \in Holders |-> 0]

\* proposeOrder up to the start of fs.writeJson: the order file exists, its
\* content is not written yet
ProposeOpen(dir, quantity, holder) ==
  /\ writing.stage = "none"
  /\ proposed < MaxProposals
  /\ proposals' = WriteFile(proposals, proposed + 1,
                    [dir |-> dir, timestamp |-> now, quantity |-> quantity,
                     holderAddress |-> holder, readable |-> FALSE])
  /\ proposed' = proposed + 1
  /\ writing' = [id |-> proposed + 1, dir |-> dir, timestamp |-> now,
                 stage |-> "open"]
  /\ UNCHANGED <<alertFiles, alerts, haltFile, gpc, todo, observed, cur,
                 lowBalCache>>
  /\ UNCHANGED <<fvars, notGofer>>

\* fs.writeJson(orderFilePath, orderData) is done
ProposeWritten ==
  /\ writing.stage = "open"
  /\ proposals' = IF writing.id \in DOMAIN proposals
                    THEN [proposals EXCEPT ![writing.id].readable = TRUE]
                    ELSE proposals
  /\ writing' = [writing EXCEPT !.stage = "written"]
  /\ UNCHANGED <<proposed, alertFiles, alerts, haltFile, gpc, todo, observed,
                 cur, lowBalCache>>
  /\ UNCHANGED <<fvars, notGofer>>

\* fs.ensureFile(alertFilePath): the alert, named after the order file
ProposeAlert ==
  /\ writing.stage = "written"
  /\ alertFiles' = alertFiles \cup {[dir |-> writing.dir,
                                     timestamp |-> writing.timestamp]}
  /\ writing' = NotWriting
  /\ UNCHANGED <<proposals, proposed, alerts, haltFile, gpc, todo, observed,
                 cur, lowBalCache>>
  /\ UNCHANGED <<fvars, notGofer>>

\* the operator creates or removes data/orders/haultBuy or haultSell
HaltToggle(dir) ==
  /\ haltFile' = [haltFile EXCEPT ![dir] = ~@]
  /\ UNCHANGED <<proposals, proposed, writing, alertFiles, alerts, gpc, todo,
                 observed, cur, lowBalCache>>
  /\ UNCHANGED <<fvars, notGofer>>

\* a cycle starts: the alert files are read, the gamer's alert file is
\* removed and the gamer's order files are listed (the gamer's directory
\* exists whenever an alert of the gamer does)
StartCycle(dir, into, skip) ==
  /\ pc = "idle"
  /\ LET alert == AlertsRead(dir)
     IN /\ alertFiles' = alertFiles \ {[dir |-> dir, timestamp |-> alert]}
        /\ alerts' = [alerts EXCEPT ![dir] = alert]
        /\ observed' = (\E a \in alertFiles : a.dir = dir)
        /\ IF alert = 0
             THEN gpc' = skip /\ todo' = <<>>
             ELSE gpc' = into /\ todo' = OrderFiles(dir)
  /\ cur' = NoProposal
  /\ UNCHANGED <<proposals, proposed, writing, haltFile, lowBalCache>>
  /\ UNCHANGED <<fvars, notGofer>>

\* executeTrades: the loop calls processBuyAlerts
StartBuy ==
  /\ gpc = "sleep"
  /\ StartCycle("BUY", "buy", "between")

\* processBuyAlerts: buyPriceBigNumber.multipliedBy(orderQuantity)
TotalWelsNeeded(buyPrice, quantity) == buyPrice * quantity

\* a faulty variant of InsufficientWels: any balance will do
InsufficientWelsNever(holderBalance, totalWelsNeeded) == FALSE
\* processBuyAlerts: holderBalanceBigNumber.isLessThan(totalWelsNeeded)
InsufficientWels(holderBalance, totalWelsNeeded) ==
  holderBalance < totalWelsNeeded

\* a faulty variant of LeaveLoop: the loop goes on to the next order file
NextOrderFile(rest) == Tail(rest)
\* the halt file is there: break (processBuyAlerts), return (processSellAlerts);
\* no other order file is examined in this cycle
LeaveLoop(rest) == <<>>

\* processBuyAlerts, one order file of the for loop: readJson, the stale
\* check, the halt check, selectNextFreeKeySlot, getBuyPrice (priceFails: the
\* chain call throws), the holder's token balance against the cost, the
\* removal of the order file, the gas check; buyBits follows
ExamineBuy(priceFails, buyPrice, holderBalance, hasEnoughGas) ==
  /\ gpc = "buy"
  /\ pc = "idle"
  /\ todo # <<>>
  /\ LET id == Head(todo)
         s == SelectNextFreeKeySlot(orders, lowBalanceCache,
                                    lastChosenFleetAddrIndex)
     IN IF ~Readable(proposals, id)
          THEN /\ gpc' = "dead"
               /\ todo' = <<>>
               /\ cur' = NoProposal
               /\ UNCHANGED <<proposals, alerts, orders, lowBalanceCache,
                              lastChosenFleetAddrIndex, pc, job>>
        ELSE IF Stale(now - proposals[id].timestamp, staleBuyOrderMinutes)
          THEN /\ proposals' = RemoveFile(proposals, id)
               /\ alerts' = [alerts EXCEPT !["BUY"] = 0]
               /\ todo' = Tail(todo)
               /\ cur' = NoProposal
               /\ UNCHANGED <<gpc, orders, lowBalanceCache,
                              lastChosenFleetAddrIndex, pc, job>>
        ELSE IF Halted(haltFile["BUY"])
          THEN /\ todo' = LeaveLoop(todo)
               /\ cur' = NoProposal
               /\ UNCHANGED <<proposals, alerts, gpc, orders, lowBalanceCache,
                              lastChosenFleetAddrIndex, pc, job>>
        ELSE /\ orders' = s.files
             /\ lowBalanceCache' = s.cache
             /\ lastChosenFleetAddrIndex' = s.cursor
             /\ UNCHANGED alerts
             /\ IF s.result = -1
                  THEN /\ todo' = Tail(todo)
                       /\ cur' = NoProposal
                       /\ UNCHANGED <<proposals, gpc, pc, job>>
                ELSE IF priceFails
                  THEN /\ gpc' = "dead"
                       /\ todo' = <<>>
                       /\ cur' = NoProposal
                       /\ UNCHANGED <<proposals, pc, job>>
                ELSE
                LET quantity == proposals[id].quantity
                    go == /\ ~InsufficientWels(holderBalance,
                                 TotalWelsNeeded(buyPrice, quantity))
                          /\ hasEnoughGas
                IN /\ proposals' = RemoveFile(proposals, id)
                   /\ todo' = Tail(todo)
                   /\ cur' = [id |-> id, dir |-> "BUY",
                              ordered |-> quantity,
                              price |-> buyPrice,
                              balance |-> holderBalance,
                              quantity |-> IF go THEN quantity ELSE 0,
                              timestamp |-> proposals[id].timestamp,
                              at |-> now]
                   /\ IF go
                        THEN /\ pc' = "selected"
                             /\ job' = [type |-> "BUY", holder |-> s.result,
                                        tx |-> 0]
                        ELSE UNCHANGED <<pc, job>>
                   /\ UNCHANGED gpc
  /\ UNCHANGED <<proposed, writing, alertFiles, haltFile, observed,
                 lowBalCache>>
  /\ UNCHANGED <<now, funded, txs, indexed, marking, recorded, streak>>
  /\ UNCHANGED notGofer

\* the end of the gamer's turn in a cycle: an alert older than the stale
\* threshold is forgotten
EndCycle(dir, into, minutes) ==
  /\ pc = "idle"
  /\ todo = <<>>
  /\ alerts' = IF alerts[dir] # 0 /\ Stale(now - alerts[dir], minutes)
                 THEN [alerts EXCEPT ![dir] = 0] ELSE alerts
  /\ gpc' = into
  /\ cur' = NoProposal
  /\ UNCHANGED <<proposals, proposed, writing, alertFiles, haltFile, todo,
                 observed, lowBalCache>>
  /\ UNCHANGED <<fvars, notGofer>>

\* processBuyAlerts returns
EndBuy ==
  /\ gpc = "buy"
  /\ EndCycle("BUY", "between", staleBuyOrderMinutes)

\* executeTrades: the loop calls processSellAlerts
StartSell ==
  /\ gpc = "between"
  /\ StartCycle("SELL", "sell", "sleep")

\* processSellAlerts, one order file of the for loop: the halt check,
\* readJson, the stale check, the holder's pending order, the low-balance
\* cache, the removal of the order file, the gas check, getBitsBalance
\* (balanceFails: the chain call throws); sellBits follows.  The try / catch
\* of processSellAlerts ends the cycle on an error.
ExamineSell(hasEnoughGas, bitsBalance, balanceFails) ==
  /\ gpc = "sell"
  /\ pc = "idle"
  /\ todo # <<>>
  /\ LET id == Head(todo)
     IN IF Halted(haltFile["SELL"]) \/ ~Readable(proposals, id)
          THEN /\ gpc' = "sleep"
               /\ todo' = IF Halted(haltFile["SELL"]) THEN LeaveLoop(todo)
                          ELSE <<>>
               /\ cur' = NoProposal
               /\ UNCHANGED <<proposals, alerts, orders, lowBalCache, pc, job>>
        ELSE IF Stale(now - proposals[id].timestamp, staleSellOrderMinutes)
          THEN /\ proposals' = RemoveFile(proposals, id)
               /\ alerts' = [alerts EXCEPT !["SELL"] = 0]
               /\ todo' = Tail(todo)
               /\ cur' = NoProposal
               /\ UNCHANGED <<gpc, orders, lowBalCache, pc, job>>
        ELSE
        LET h == proposals[id].holderAddress
            files == IF PathExists(orders, h)
                       THEN RefreshPendingOrder(orders, h).files ELSE orders
        IN /\ orders' = files
           /\ UNCHANGED alerts
           /\ IF PathExists(files, h) \/ IsInSellLowBalCache(h)
                THEN /\ todo' = Tail(todo)
                     /\ cur' = NoProposal
                     /\ UNCHANGED <<proposals, gpc, lowBalCache, pc, job>>
              ELSE
              /\ proposals' = RemoveFile(proposals, id)
              /\ IF ~hasEnoughGas
                   THEN /\ lowBalCache' = [lowBalCache EXCEPT ![h] = now]
                        /\ todo' = Tail(todo)
                        /\ cur' = NoProposal
                        /\ UNCHANGED <<gpc, pc, job>>
                 ELSE IF balanceFails
                   THEN /\ gpc' = "sleep"
                        /\ todo' = <<>>
                        /\ cur' = NoProposal
                        /\ UNCHANGED <<lowBalCache, pc, job>>
                 ELSE IF bitsBalance = 0
                   THEN /\ todo' = Tail(todo)
                        /\ cur' = [id |-> id, dir |-> "SELL",
                                   ordered |-> proposals[id].quantity,
                                   price |-> 0,
                                   balance |-> 0, quantity |-> 0,
                                   timestamp |-> proposals[id].timestamp,
                                   at |-> now]
                        /\ UNCHANGED <<gpc, lowBalCache, pc, job>>
                 ELSE /\ todo' = Tail(todo)
                      /\ cur' = [id |-> id, dir |-> "SELL",
                                 ordered |-> proposals[id].quantity,
                                 price |-> 0,
                                 balance |-> bitsBalance,
                                 quantity |-> SellQuantity(
                                   proposals[id].quantity, bitsBalance),
                                 timestamp |-> proposals[id].timestamp,
                                 at |-> now]
                      /\ pc' = "selected"
                      /\ job' = [type |-> "SELL", holder |-> h, tx |-> 0]
                      /\ UNCHANGED <<gpc, lowBalCache>>
  /\ UNCHANGED <<proposed, writing, alertFiles, haltFile, observed>>
  /\ UNCHANGED <<now, funded, txs, indexed, marking,
                 lastChosenFleetAddrIndex, lowBalanceCache, recorded, streak>>
  /\ UNCHANGED notGofer

\* processSellAlerts returns; the loop sleeps tradeGoferIntervalSeconds
EndSell ==
  /\ gpc = "sell"
  /\ EndCycle("SELL", "sleep", staleSellOrderMinutes)

\* getBitBalanceInStore: the bits of the gamer in the holder's batch files,
\* which hold the purchases whose Trade event the indexer has stored
GetBitBalanceInStore(h) ==
  LET stored == {t \in indexed : txs[t].sender = h}
      RECURSIVE Sum(_)
      Sum(ts) == IF ts = {} THEN 0
                 ELSE LET t == CHOOSE x \in ts : TRUE
                      IN txs[t].bits + Sum(ts \ {t})
  IN Sum(stored)

\* getAmountPending: the bits of the holder's pending order, 0 when there is
\* no file, when it carries the mined mark or when it is of the other type
GetAmountPending(h, tradeType) ==
  IF ~PathExists(orders, h) THEN 0
  ELSE IF orders[h].mined THEN 0
  ELSE IF orders[h].orderType = tradeType THEN orders[h].numberOfBits
  ELSE 0

\* getProposedSum: the quantities of the gamer's order files
GetProposedSum(tradeType) ==
  LET RECURSIVE Sum(_)
      Sum(ids) == IF ids = {} THEN 0
                  ELSE LET i == CHOOSE x \in ids : TRUE
                       IN proposals[i].quantity + Sum(ids \ {i})
  IN Sum({i \in DOMAIN proposals : proposals[i].dir = tradeType})

\* the loop of adjustBuyTargetAmount over the holders from index h on:
\* "zero" when a partial sum reaches maxBitsToOwn
RECURSIVE AdjustBuyLoop(_, _, _, _)
AdjustBuyLoop(h, totalBitBalance, totalAmountPending, maxBitsToOwn) ==
  IF h = NumHolders
    THEN [zero |-> FALSE, sum |-> totalBitBalance + totalAmountPending]
  ELSE
  LET balance == totalBitBalance + GetBitBalanceInStore(h)
      pending == totalAmountPending + GetAmountPending(h, "BUY")
  IN IF balance >= maxBitsToOwn \/ balance + pending >= maxBitsToOwn
       THEN [zero |-> TRUE, sum |-> balance + pending]
       ELSE AdjustBuyLoop(h + 1, balance, pending, maxBitsToOwn)

\* adjustBuyTargetAmount: what is left of maxBitsToOwn after the bits in the
\* store, the pending buys and the proposed buys
AdjustBuyTargetAmount(maxBitsToOwn) ==
  LET loop == AdjustBuyLoop(0, 0, 0, maxBitsToOwn)
  IN IF loop.zero THEN 0
     ELSE IF loop.sum + GetProposedSum("BUY") >= maxBitsToOwn THEN 0
     ELSE maxBitsToOwn - (loop.sum + GetProposedSum("BUY"))

\* buyUpToImpl of the rule action buyUpTo(MaxBitsToOwn): the adjusted quantity
\* is proposed when it is above 0
BuyUpTo ==
  /\ AdjustBuyTargetAmount(MaxBitsToOwn) > 0
  /\ ProposeOpen("BUY", AdjustBuyTargetAmount(MaxBitsToOwn), 0)

\* getProposedSum with a holder: the quantities of the gamer's order files
\* that name the holder
GetProposedSumFor(tradeType, holderAddress) ==
  LET RECURSIVE Sum(_)
      Sum(ids) == IF ids = {} THEN 0
                  ELSE LET i == CHOOSE x \in ids : TRUE
                       IN proposals[i].quantity + Sum(ids \ {i})
  IN Sum({i \in DOMAIN proposals : /\ proposals[i].dir = tradeType
                                   /\ proposals[i].holderAddress = holderAddress})

\* a faulty variant of AdjustSellTargetAmount: the proposed orders are not
\* counted
AdjustSellWithoutProposed(bitBalance, amountPending, proposedSum, maxBitsToSell) ==
  IF amountPending >= bitBalance THEN 0
  ELSE IF maxBitsToSell < bitBalance - amountPending THEN maxBitsToSell
  ELSE bitBalance - amountPending
\* adjustSellTargetAmount, on the three values it reads: 0 when the pending
\* and proposed bits reach the balance, else Math.min of maxBitsToSell and
\* what is left of the balance
AdjustSellTargetAmount(bitBalance, amountPending, proposedSum, maxBitsToSell) ==
  IF (amountPending + proposedSum) >= bitBalance THEN 0
  ELSE LET remainingAvailableBalance == bitBalance - (amountPending + proposedSum)
       IN IF maxBitsToSell < remainingAvailableBalance THEN maxBitsToSell
          ELSE remainingAvailableBalance

\* sellBitImpl of the rule action sellBit for a holder, with the quantity of
\* the rule's quantity function and the holder's balance in the store
\* (bitBalance): the adjusted quantity is proposed when it is above 0;
\* otherwise an alert is raised when the holder has proposed orders left
SellBit(h, quantity, bitBalance) ==
  /\ quantity > 0
  /\ LET proposedSum == GetProposedSumFor("SELL", h)
         adjustedQuantity ==
           AdjustSellTargetAmount(bitBalance, GetAmountPending(h, "SELL"),
                                  proposedSum, quantity)
     IN IF adjustedQuantity > 0
          THEN ProposeOpen("SELL", adjustedQuantity, h)
          ELSE /\ writing.stage = "none"
               /\ alertFiles' = IF proposedSum > 0
                                  THEN alertFiles \cup {[dir |-> "SELL",
                                                         timestamp |-> now]}
                                  ELSE alertFiles
               /\ UNCHANGED <<proposals, proposed, writing, alerts, haltFile,
                              gpc, todo, observed, cur, lowBalCache>>
               /\ UNCHANGED <<fvars, notGofer>>

\* a sell rule with sellBit for the holders that own bits, the loop of
\* executeTrades, the chain and the indexer; no order grows stale, the clock
\* stands still
SellRuleNext ==
  \/ \E h \in SellHolders : \E q \in OrderQuantities : \E b \in BitsBalances :
       SellBit(h, q, b)
  \/ ProposeWritten
  \/ ProposeAlert
  \/ StartBuy
  \/ StartSell
  \/ ExamineSell(TRUE, LargeQuantity, FALSE)
  \/ EndSell
  \/ SendTransaction
  \/ RecordPendingOrder
  \/ WaitReturns
  \/ \E t \in TxHashes : Mine(t)
  \/ \E t \in TxHashes : MarkMinedRead(t)
  \/ MarkMinedChmod

\* a buy rule with buyUpTo(MaxBitsToOwn), the loop of executeTrades, the chain
\* and the indexer
BudgetNext ==
  \/ Tick
  \/ BuyUpTo
  \/ ProposeWritten
  \/ ProposeAlert
  \/ StartBuy
  \/ \E f \in BOOLEAN : ExamineBuy(f, BuyPrice, FullBalance, TRUE)
  \/ EndBuy
  \/ StartSell
  \/ Abort
  \/ SendTransaction
  \/ RecordPendingOrder
  \/ RecordFails
  \/ WaitReturns
  \/ \E t \in TxHashes : Mine(t)
  \/ \E t \in TxHashes : MarkMinedRead(t)
  \/ MarkMinedChmod

\* the rules that propose orders and an execution process that carries them
\* out, stops and is started again
CrashNext ==
  \/ Tick
  \/ ProposeOpen("BUY", LargeQuantity, 0)
  \/ \E h \in SellHolders : ProposeOpen("SELL", SmallQuantity, h)
  \/ ProposeWritten
  \/ ProposeAlert
  \/ StartBuy
  \/ ExamineBuy(FALSE, BuyPrice, FullBalance, TRUE)
  \/ EndBuy
  \/ StartSell
  \/ ExamineSell(TRUE, SmallQuantity, FALSE)
  \/ EndSell
  \/ SendTransaction
  \/ RecordPendingOrder
  \/ WaitReturns
  \/ Restart
  \/ \E t \in TxHashes : Mine(t)

\* the prices getBuyPrice may return
BuyPrices == {BuyPrice, 2 * BuyPrice}

\* buy proposals of either size, and the buy cycle of an execution process
\* whose holders have token balances and gas that may fall short
FundsNext ==
  \/ Tick
  \/ \E q \in OrderQuantities : ProposeOpen("BUY", q, 0)
  \/ ProposeWritten
  \/ ProposeAlert
  \/ StartBuy
  \/ \E f \in BOOLEAN : \E p \in BuyPrices : \E b \in WelsBalances :
       \E g \in BOOLEAN : ExamineBuy(f, p, b, g)
  \/ EndBuy
  \/ StartSell
  \/ Abort
  \/ SendTransaction
  \/ RecordPendingOrder
  \/ WaitReturns
  \/ \E t \in TxHashes : Mine(t)

\* the rules that propose orders, an execution process that stays up, the
\* chain and the indexer that marks the mined orders
MarkNext ==
  \/ Tick
  \/ ProposeOpen("BUY", LargeQuantity, 0)
  \/ \E h \in SellHolders : ProposeOpen("SELL", SmallQuantity, h)
  \/ ProposeWritten
  \/ ProposeAlert
  \/ StartBuy
  \/ ExamineBuy(FALSE, BuyPrice, FullBalance, TRUE)
  \/ EndBuy
  \/ StartSell
  \/ ExamineSell(TRUE, SmallQuantity, FALSE)
  \/ EndSell
  \/ SendTransaction
  \/ RecordPendingOrder
  \/ WaitReturns
  \/ \E t \in TxHashes : Mine(t)
  \/ \E t \in TxHashes : MarkMinedRead(t)
  \/ MarkMinedChmod

\* the rules that propose orders, the operator, the loop of executeTrades and
\* the chain (a pending order goes when it expires or the key's nonce moves)
GoferNext ==
  \/ Tick
  \/ ProposeOpen("BUY", LargeQuantity, 0)
  \/ \E q \in OrderQuantities : \E h \in SellHolders :
       ProposeOpen("SELL", q, h)
  \/ ProposeWritten
  \/ ProposeAlert
  \/ \E d \in Dirs : HaltToggle(d)
  \/ StartBuy
  \/ \E f \in BOOLEAN : ExamineBuy(f, BuyPrice, FullBalance, TRUE)
  \/ EndBuy
  \/ StartSell
  \/ \E g \in BOOLEAN : \E b \in BitsBalances : \E f \in BOOLEAN :
       ExamineSell(g, b, f)
  \/ EndSell
  \/ Abort
  \/ SendTransaction
  \/ RecordPendingOrder
  \/ RecordFails
  \/ WaitReturns
  \/ \E t \in TxHashes : Mine(t)

(***************************************************************************)
(* Rules: the schema of the rule files (tradeSchema.json), processJsonRules *)
(* and evaluateAndInvokeRulesAsync (rulesEngineLib.js).  A rule object     *)
(* always has its ruleID, invokeBy and action; its quantity, if there, is  *)
(* a string; its conditions, if there, are an array of objects, each with  *)
(* an expression string or without one.                                    *)
(***************************************************************************)
\* the component that loads the rules, and another one
Role == "chainIndexer"
Roles == {"chainIndexer", "cloudNewGamerFeed"}

\* the sequences over S of length up to n
SeqsUpTo(S, n) == UNION {[1..k -> S] : k \in 0..n}

\* the items of a conditions array
Items == {"expression", "empty"}

\* the rule objects of a rule file
RuleObjects ==
  [invokeBy : Roles,
   quantity : BOOLEAN,
   conditions : [present : {TRUE}, items : SeqsUpTo(Items, MaxConditions)]
                  \cup {[present |-> FALSE, items |-> <<>>]}]

\* the rule files
Documents == SeqsUpTo(RuleObjects, MaxRules)

\* what the quantity function of a rule may return
QuantityResults == {0, SmallQuantity}

NotProcessed == [status |-> "none", rules |-> <<>>]
NoQuantity == [defined |-> FALSE, value |-> 0]
\* the promise of the evaluation is not rejected
NoRejection == [rule |-> 0, condition |-> 0]

\* tradeSchema.json, first branch of oneOf: quantity is required
MatchesQuantity(rule) == rule.quantity

\* tradeSchema.json, second branch of oneOf: conditions is required, and each
\* of its items requires an expression
MatchesConditions(rule) ==
  /\ rule.conditions.present
  /\ \A i \in 1..Len(rule.conditions.items) :
       rule.conditions.items[i] = "expression"

\* oneOf: exactly one of the branches validates
OneOf(a, b) == (a /\ ~b) \/ (~a /\ b)

\* validateJsonSchema(schema, jsonDocument).isValid
ValidateJsonSchema(doc) ==
  \A i \in 1..Len(doc) :
    OneOf(MatchesQuantity(doc[i]), MatchesConditions(doc[i]))

\* jsonDocument.filter(rule => rule.invokeBy.includes(role))
RECURSIVE FilterByRole(_, _)
FilterByRole(doc, role) ==
  IF doc = <<>> THEN <<>>
  ELSE (IF Head(doc).invokeBy = role THEN <<Head(doc)>> ELSE <<>>)
         \o FilterByRole(Tail(doc), role)

\* parseAndValidateExpression(condition.expression, functions) throws for a
\* condition without expression
ParseThrows(rule) ==
  /\ rule.conditions.present
  /\ \E i \in 1..Len(rule.conditions.items) :
       rule.conditions.items[i] = "empty"

\* the map of processJsonRules: conditions is [] for a rule without
\* conditions, quantity is null for a rule without quantity
ParsedRule(rule) ==
  [conditions |-> IF rule.conditions.present
                    THEN Len(rule.conditions.items) ELSE 0,
   quantity |-> rule.quantity]

\* processJsonRules(jsonDocument, schema, role)
ProcessedRules(doc, role) ==
  IF ~ValidateJsonSchema(doc) THEN [status |-> "invalid", rules |-> <<>>]
  ELSE LET mine == FilterByRole(doc, role)
       IN IF \E i \in 1..Len(mine) : ParseThrows(mine[i])
            THEN [status |-> "threw", rules |-> <<>>]
            ELSE [status |-> "ok",
                  rules |-> [i \in 1..Len(mine) |-> ParsedRule(mine[i])]]

\* a faulty variant of AllConditionsMet: one condition that holds is enough
AnyConditionMet(res) == \E i \in 1..Len(res) : res[i]
\* (await Promise.all(rule.conditions.map(...))).every(Boolean)
AllConditionsMet(res) == \A i \in 1..Len(res) : res[i]

RulesInit ==
  /\ document = <<>>
  /\ processed = NotProcessed
  /\ evalPos = 0
  /\ ctxQuantity = NoQuantity
  /\ invoked = <<>>
  /\ results = <<>>
  /\ rejection = NoRejection

\* the component is constructed: it reads its rule file and processes it
ProcessJsonRules(doc) ==
  /\ processed.status = "none"
  /\ document' = doc
  /\ processed' = ProcessedRules(doc, Role)
  /\ UNCHANGED <<evalPos, ctxQuantity, invoked, results, rejection>>
  /\ UNCHANGED notRules

\* evaluateAndInvokeRulesAsync(ctx, rules) is called with a new ctx
EvaluateAndInvokeRulesAsync ==
  /\ processed.status = "ok"
  /\ processed.rules # <<>>
  /\ evalPos = 0
  /\ evalPos' = 1
  /\ ctxQuantity' = NoQuantity
  /\ invoked' = <<>>
  /\ results' = <<>>
  /\ rejection' = NoRejection
  /\ UNCHANGED <<document, processed>>
  /\ UNCHANGED notRules

\* a faulty variant of Rejected: a throw of a condition is lost, the values
\* of the conditions decide
RejectionLost(thrower) == FALSE
\* await Promise.all(...): the promise is rejected when one of the condition
\* functions throws (thrower: its place in the rule's conditions, 0: none)
Rejected(thrower) == thrower # 0

\* one rule of the for loop: res is what the rule's conditions return,
\* thrower the condition that throws instead (0: none), q what the rule's
\* quantity function returns if it is called.  Nothing catches a rejection:
\* it ends the loop and rejects the promise of the evaluation.
EvaluateRule(res, thrower, q) ==
  /\ evalPos # 0
  /\ LET rule == processed.rules[evalPos]
         allConditionsMet == IF rule.conditions > 0
                               THEN AllConditionsMet(res) ELSE TRUE
         quantityCall == IF allConditionsMet /\ rule.quantity
                           THEN <<[fn |-> "quantity", rule |-> evalPos,
                                   quantity |-> q]>>
                           ELSE <<>>
         after == IF allConditionsMet /\ rule.quantity
                    THEN [defined |-> TRUE, value |-> q] ELSE ctxQuantity
         actionCall == IF allConditionsMet
                         THEN <<[fn |-> "action", rule |-> evalPos,
                                 quantity |-> after.value]>>
                         ELSE <<>>
     IN /\ Len(res) = rule.conditions
        /\ thrower \in 0..rule.conditions
        /\ IF Rejected(thrower)
             THEN /\ rejection' = [rule |-> evalPos, condition |-> thrower]
                  /\ evalPos' = 0
                  /\ UNCHANGED <<ctxQuantity, invoked, results>>
             ELSE /\ ctxQuantity' = after
                  /\ invoked' = invoked \o quantityCall \o actionCall
                  /\ results' = Append(results, res)
                  /\ evalPos' = IF evalPos = Len(processed.rules) THEN 0
                                ELSE evalPos + 1
                  /\ UNCHANGED rejection
  /\ UNCHANGED <<document, processed>>
  /\ UNCHANGED notRules

\* a component loads its rules and evaluates them
RulesNext ==
  \/ \E doc \in Documents : ProcessJsonRules(doc)
  \/ EvaluateAndInvokeRulesAsync
  \/ \E res \in SeqsUpTo(BOOLEAN, MaxConditions) :
       \E thrower \in 0..MaxConditions :
         \E q \in QuantityResults : EvaluateRule(res, thrower, q)

(***************************************************************************)
(*                          Specifications                                 *)
(***************************************************************************)
Init == QueueInit /\ LedgerInit /\ FleetInit /\ GoferInit /\ RulesInit

QueueSpec == Init /\ [][QueueNext]_vars

\* a started task ends: the rule evaluation of a task terminates or throws
TaskEnds == \E t \in Tasks : TaskReturns(t) \/ TaskThrows(t)

QueueFairSpec == QueueSpec /\ WF_vars(TaskEnds)

LedgerSpec == Init /\ [][LedgerNext]_vars

StoreSpec == Init /\ [][StoreNext]_vars

GoferSpec == Init /\ [][GoferNext]_vars

BudgetSpec == Init /\ [][BudgetNext]_vars

SellRuleSpec == Init /\ [][SellRuleNext]_vars

CrashSpec == Init /\ [][CrashNext]_vars
FundsSpec == Init /\ [][FundsNext]_vars
ReclaimSpec == Init /\ [][ReclaimNext]_vars
MarkSpec == Init /\ [][MarkNext]_vars

PhaseSpec == Init /\ [][PhaseNext]_vars

RulesSpec == Init /\ [][RulesNext]_vars

IndexerSpec == Init /\ [][IndexerNext]_vars

FleetSpec == Init /\ [][FleetNext]_vars

SlotSpec == Init /\ [][SlotNext]_vars

(***************************************************************************)
(*                      Claims on the key fleet                            *)
(***************************************************************************)

\* a step in which selectNextFreeKeySlot returns an index to the buy gofer
BuySelectReturns == pc = "idle" /\ pc' = "selected" /\ job'.type = "BUY"

\* the pending order of h is there and nothing clears it: no mined mark, not
\* older than maxPendingInSeconds, chain nonce not past the recorded nonce
C1_Live(h) ==
  /\ h \in DOMAIN orders
  /\ ~orders[h].mined
  /\ now - orders[h].timestamp <= maxPendingInSeconds
  /\ GetTransactionCount(h) <= orders[h].nonce

\* C1: selectNextFreeKeySlot never returns a holder whose recorded Pending
\* Order is not cleared (not marked mined, age at most maxPendingInSeconds,
\* chain nonce not past the recorded nonce), and it leaves that order in place.
C1_BusySlotNeverSelected ==
  [][BuySelectReturns =>
       /\ ~C1_Live(job'.holder)
       /\ \A h \in Holders :
            C1_Live(h) => h \in DOMAIN orders' /\ orders'[h] = orders[h]]_vars

\* the second loop has run (a holder without a file was found short of
\* balance in this call), has passed over a holder whose order is live, and
\* has returned a holder whose order it cleared
C1_Witness ==
  /\ pc = "selected"
  /\ job.type = "BUY"
  /\ \E h \in Holders \ {job.holder} : C1_Live(h)
  /\ \E g \in Holders \ {job.holder} :
       g \notin DOMAIN orders /\ lowBalanceCache[g] = now
  /\ \E t \in 1..Len(txs) : txs[t].sender = job.holder /\ recorded[t] = 1

\* C2: a fleet key never has two submitted transactions that are not mined.
C2_OneUnminedTxPerKey ==
  \A h \in Holders :
    Cardinality({t \in 1..Len(txs) : txs[t].sender = h /\ ~txs[t].mined}) <= 1

C4_AsStated ==
  \A i \in 1..Len(streak) : \A j \in 1..Len(streak) :
    i < j => streak[i].index # streak[j].index

\* C4: successive selectNextFreeKeySlot calls made with every holder free,
\* funded and out of the low-balance cache, and no Pending Order recorded in
\* between, return each index once before any index is returned again.
C4_RoundRobin ==
  \A i \in 1..Len(streak) :
    /\ streak[i].clean => streak[i].index \in Holders
    /\ \A j \in 1..Len(streak) :
         (i < j /\ \A k \in i..j : streak[k].clean)
           => streak[i].index # streak[j].index

\* as many successive calls as there are holders, none of them in the cache
C4_Witness ==
  /\ Len(streak) = NumHolders
  /\ \A i \in 1..Len(streak) : streak[i].clean
  /\ {streak[i].index : i \in 1..Len(streak)} = Holders

C5_Cached(h) ==
  /\ lowBalanceCache[h] # 0
  /\ now - lowBalanceCache[h] < lowBalCacheTTLMinutes * 60

\* no Pending Order file, funded, not in the low-balance cache
C5_Free(h) == h \notin DOMAIN orders /\ funded[h] /\ ~C5_Cached(h)

\* a Pending Order file that a refresh removes, funded, not in the cache
C5_Reclaimable(h) ==
  /\ h \in DOMAIN orders
  /\ \/ orders[h].mined
     \/ now - orders[h].timestamp > maxPendingInSeconds
     \/ GetTransactionCount(h) > orders[h].nonce
  /\ funded[h]
  /\ ~C5_Cached(h)

\* the place of h in a cyclic scan that starts just after the cursor
C5_Rank(h) ==
  (h + NumHolders - lastChosenFleetAddrIndex - 1) % NumHolders

C5_First(S) == CHOOSE h \in S : \A g \in S : C5_Rank(h) <= C5_Rank(g)

C5_Expected ==
  LET free == {h \in Holders : C5_Free(h)}
      reclaimable == {h \in Holders : C5_Reclaimable(h)}
  IN IF free # {} THEN C5_First(free)
     ELSE IF reclaimable # {} THEN C5_First(reclaimable)
     ELSE -1

\* C5: selectNextFreeKeySlot returns the first eligible holder of a cyclic
\* scan that starts just after the last chosen index (a holder with a Pending
\* Order file is passed over while a holder without one is eligible) and
\* moves the cursor to the index it returns; from the initial cursor 0 an
\* all-free fleet gives index 1, and with a Pending Order on 1 the next call
\* gives 2.
C5_FirstEligibleAfterCursor ==
  [][/\ BuySelectReturns =>
          /\ job'.holder = C5_Expected
          /\ lastChosenFleetAddrIndex' = job'.holder
     /\ (BuySelectReturns /\ lastChosenFleetAddrIndex = 0
           /\ \A h \in Holders : C5_Free(h))
          => job'.holder = 1
     /\ (BuySelectReturns /\ lastChosenFleetAddrIndex = 1
           /\ 1 \in DOMAIN orders /\ C5_Free(2))
          => job'.holder = 2
     /\ lastChosenFleetAddrIndex' # lastChosenFleetAddrIndex
          => BuySelectReturns]_vars

\* the call after a Pending Order was recorded for index 1 has returned 2
C5_Witness ==
  /\ pc = "selected"
  /\ job.holder = 2
  /\ lastChosenFleetAddrIndex = 2
  /\ 1 \in DOMAIN orders
  /\ 0 \notin DOMAIN orders
  /\ funded[0]
  /\ lowBalanceCache[0] = 0

(***************************************************************************)
(*                     Claims on the task queue                            *)
(***************************************************************************)

\* C6: at most one rule-batch evaluation runs at any instant, and a task is
\* started only after every task started before it has ended.
C6_OneEvaluationAtATime ==
  /\ Cardinality(running) <= 1
  /\ \A i \in 1..Len(startOrder) :
       \A j \in 1..Len(startOrder) :
         i < j => ended[startOrder[i]] # "no"

\* a task is running while another trigger source's task waits in the queue
C6_Witness == running # {} /\ Len(queue) >= 1 /\ Len(startOrder) >= 2

\* C7: tasks are started in strict arrival order (the started tasks are a
\* prefix of the added ones, the waiting ones the rest, in the same order),
\* and a dequeued task is never dropped: it is running until it has ended.
C7_StrictArrivalOrder ==
  /\ addOrder = startOrder \o queue
  /\ \A t \in Range(startOrder) : (t \in running) = (ended[t] = "no")
  /\ running \subseteq Range(startOrder)

\* two tasks waited together and tasks were started before them
C7_Witness == Len(queue) >= 2 /\ Len(startOrder) >= 2

\* C8: when a task throws, the failure is logged and every task that waits in
\* the queue is still started.
C8_QueueGoesOnAfterThrow ==
  /\ [](\A t \in Tasks : ended[t] = "threw" => t \in logged)
  /\ \A u \in Tasks :
       (u \in Range(queue) /\ \E t \in Tasks : ended[t] = "threw")
          ~> (u \in Range(startOrder))

\* a task was started after the task started before it had thrown
C8_Witness ==
  \E i \in 1..Len(startOrder) :
    /\ i < Len(startOrder)
    /\ ended[startOrder[i]] = "threw"
    /\ startOrder[i] \in logged

\* C9: the promise add() returned settles once its task has ended, whether the
\* task returned or threw (so the awaiting caller resumes).
C9_PromiseSettles ==
  \A t \in Tasks : ended[t] # "no" => promise[t] \in {"resolved", "rejected"}

(***************************************************************************)
(*                       Claims on the ledger                              *)
(***************************************************************************)
\* lot j was bought before lot k
C10_Older(j, k) ==
  \/ holdersDir[j].BlockNumOnWhichBitsWereBought
       < holdersDir[k].BlockNumOnWhichBitsWereBought
  \/ /\ holdersDir[j].BlockNumOnWhichBitsWereBought
          = holdersDir[k].BlockNumOnWhichBitsWereBought
     /\ j < k

\* a step takes bits from the active lot k
C10_Touched(k) ==
  \/ k \notin DOMAIN holdersDir'
  \/ holdersDir'[k].remainingBatchAmount < holdersDir[k].remainingBatchAmount

C10_FifoStep ==
  \A k \in DOMAIN holdersDir :
    C10_Touched(k) =>
      \A j \in DOMAIN holdersDir :
        C10_Older(j, k) =>
          /\ j \notin DOMAIN holdersDir'
          /\ j \in DOMAIN archiveDir'
          /\ archiveDir'[j].remainingBatchAmount = 0

C10_ExampleEvents ==
  << TradeEvent(TRUE, 12, 100),
     TradeEvent(TRUE, 15, 105),
     TradeEvent(FALSE, 20, 110) >>

C10_ExampleResult ==
  /\ DOMAIN archiveDir = {1}
  /\ archiveDir[1].InitialBatchAmount = 12
  /\ archiveDir[1].remainingBatchAmount = 0
  /\ archiveDir[1].BlockNumOnWhichBitsWereBought = 100
  /\ archiveDir[1].BlockNumberOnWhichBitsWereSold = 110
  /\ DOMAIN holdersDir = {2}
  /\ holdersDir[2].InitialBatchAmount = 15
  /\ holdersDir[2].remainingBatchAmount = 7
  /\ holdersDir[2].BlockNumOnWhichBitsWereBought = 105
  /\ holdersDir[2].BlockNumberOnWhichBitsWereSold = 110

\* C10: a SELL takes bits from a lot only when every older active lot of the
\* (holder, gamer) is fully depleted by it and archived; lots of 12 (block 100)
\* and 15 (block 105) and a sell of 20 at block 110 leave lot 1 archived with
\* nothing and lot 2 with 7.
C10_OldestLotFirst ==
  /\ [][C10_FifoStep]_vars
  /\ []((chainEvents = C10_ExampleEvents /\ indexedCount = 3) => C10_ExampleResult)

\* the sell of 20 has been applied to the lots of 12 and 15
C10_Witness ==
  /\ chainEvents = C10_ExampleEvents
  /\ indexedCount = 3
  /\ 1 \in DOMAIN archiveDir
  /\ 2 \in DOMAIN holdersDir
  /\ holdersDir[2].remainingBatchAmount = 7

\* every lot of the store, active or archived
C11_Lots ==
  {holdersDir[k] : k \in DOMAIN holdersDir}
    \cup {archiveDir[k] : k \in DOMAIN archiveDir}

\* C11: after any sequence of addGamerBatch and updateGamerBatch calls every
\* lot has 0 <= remainingBatchAmount <= InitialBatchAmount, and an
\* updateGamerBatch call that asks for more bits than the lot has left throws
\* INSUFFICIENT_BITS and leaves the lot as it was.
C11_RemainingWithinInitial ==
  /\ \A lot \in C11_Lots :
       /\ 0 <= lot.remainingBatchAmount
       /\ lot.remainingBatchAmount <= lot.InitialBatchAmount
  /\ (lastCall.op = "updateGamerBatch" /\ lastCall.overdraw)
       => lastCall.error = "INSUFFICIENT_BITS" /\ lastCall.unchanged

\* a call asked a lot for more than it had left, after lots were partly and
\* fully sold
C11_Witness ==
  /\ lastCall.op = "updateGamerBatch"
  /\ lastCall.overdraw
  /\ lastCall.error = "INSUFFICIENT_BITS"
  /\ \E k \in DOMAIN holdersDir :
       /\ holdersDir[k].remainingBatchAmount > 0
       /\ holdersDir[k].remainingBatchAmount < holdersDir[k].InitialBatchAmount
  /\ archiveDir # EmptyDir

\* the record of lot k after a step that may have archived it
C12_After(k) ==
  IF k \in DOMAIN holdersDir' THEN holdersDir'[k] ELSE archiveDir'[k]

\* the bits a step took from the active lot k, and the proceeds it recorded
\* on that lot
C12_Taken(k) ==
  holdersDir[k].remainingBatchAmount - C12_After(k).remainingBatchAmount

C12_Recorded(k) == C12_After(k).sellPrice - holdersDir[k].sellPrice

RECURSIVE C12_Sum(_)
C12_Sum(lots) ==
  IF lots = {} THEN 0
  ELSE LET k == CHOOSE x \in lots : TRUE
       IN C12_Recorded(k) + C12_Sum(lots \ {k})

\* the step applies a SELL event that the lots cover
C12_SellApplied ==
  /\ indexedCount' = indexedCount + 1
  /\ indexerUp'
  /\ ~chainEvents[indexedCount'].isBuy
  /\ chainEvents[indexedCount'].bitAmount > 0

\* C12: when one SELL event consumes several lots, the proceeds recorded on
\* each lot are the event's proceeds split in proportion to the quantity taken
\* from that lot, and the proceeds recorded over all the lots sum to the
\* event's proceeds.
C12_ProceedsSplit ==
  [][C12_SellApplied =>
      LET ev == chainEvents[indexedCount']
          touched == {k \in DOMAIN holdersDir : C12_Taken(k) > 0}
      IN /\ \A k \in touched :
              C12_Recorded(k) * ev.bitAmount = ev.ethAmount * C12_Taken(k)
         /\ C12_Sum(touched) = ev.ethAmount]_vars

\* the latest indexed block B: the highest bought or sold block of any lot
C13_LatestIndexedBlock ==
  LET lots == {holdersDir[k] : k \in DOMAIN holdersDir}
                \cup {archiveDir[k] : k \in DOMAIN archiveDir}
      blocks == {lot.BlockNumOnWhichBitsWereBought : lot \in lots}
                  \cup {lot.BlockNumberOnWhichBitsWereSold : lot \in lots}
  IN IF blocks = {} THEN 0
     ELSE CHOOSE b \in blocks : \A c \in blocks : c <= b

\* a step in which a stopped indexing process starts again
C13_Starts == ~indexerUp /\ indexerUp'

\* a step in which the indexer hands an event to storeEventDetails
C13_Applies == indexerUp /\ indexedCount' = indexedCount + 1

\* C13: an indexer that starts on a ledger whose latest indexed block is
\* B > 0 starts fetching at block B + 1, and at the contract deployment block
\* on an empty ledger; no event it applies from then on is of a block at or
\* below B.
C13_ResumesAfterLatestBlock ==
  /\ [][C13_Starts =>
         /\ C13_LatestIndexedBlock > 0
              => startBlock' = C13_LatestIndexedBlock + 1
         /\ C13_LatestIndexedBlock = 0 => startBlock' = FirstBlock
         /\ \A i \in 1..Len(chainEvents) :
              i > indexedCount'
                => chainEvents[i].blockNumber > C13_LatestIndexedBlock]_vars
  /\ [][C13_Applies =>
         chainEvents[indexedCount'].blockNumber >= startBlock]_vars

\* a restarted indexer resumed above its ledger's latest block and has applied
\* a later event since
C13_Witness ==
  /\ indexerUp
  /\ startBlock > FirstBlock
  /\ indexedCount > 0
  /\ chainEvents[indexedCount].blockNumber >= startBlock
  /\ chainEvents[indexedCount].bitAmount > 0
  /\ C13_LatestIndexedBlock = chainEvents[indexedCount].blockNumber

\* the ledger after the first n Trade events of the chain went through
\* storeEventDetails once each, in chain order, on an empty ledger
RECURSIVE C14_Replay(_)
C14_Replay(n) ==
  IF n = 0
    THEN [holders |-> EmptyDir, archive |-> EmptyDir, error |-> "none", left |-> 0]
  ELSE LET before == C14_Replay(n - 1)
       IN IF before.error # "none" THEN before
          ELSE StoreEventDetails(before.holders, before.archive, chainEvents[n])

\* the indexing process runs and has no event left to fetch
C14_CaughtUp == indexerUp /\ indexedCount = Len(chainEvents)

\* C14: whenever the indexing process stopped and was restarted, once it has
\* caught up the ledger is the one obtained by applying every Trade event of
\* the chain exactly once in chain order.
C14_LedgerIsReplayOfChain ==
  C14_CaughtUp =>
    /\ holdersDir = C14_Replay(Len(chainEvents)).holders
    /\ archiveDir = C14_Replay(Len(chainEvents)).archive

\* a step in which a gofer examines the order file at the head of its list
C15_Examines ==
  /\ gpc \in {"buy", "sell"}
  /\ pc = "idle"
  /\ todo # <<>>
  /\ todo' # todo

\* the stale threshold of a direction, in seconds
C15_Threshold(dir) ==
  IF dir = "BUY" THEN staleBuyOrderMinutes * 60 ELSE staleSellOrderMinutes * 60

\* the order file at the head of the list is read and is older than the
\* threshold of its direction (a halted sell cycle reads no order file)
C15_HeadIsStale ==
  /\ Head(todo) \in DOMAIN proposals
  /\ proposals[Head(todo)].readable
  /\ gpc = "sell" => ~haltFile["SELL"]
  /\ now - proposals[Head(todo)].timestamp
       > C15_Threshold(proposals[Head(todo)].dir)

C16_Min(q, b) == IF q <= b THEN q ELSE b

\* C16: for a SELL proposal of quantity q whose holder has a bits balance
\* b > 0, sellBits is called with min(q, b): the quantity is lowered to b when
\* b < q, never exceeds b, and the order goes on to sellBits.
C16_SellClampedToBalance ==
  /\ [](cur.dir = "SELL" /\ cur.balance > 0 =>
          /\ cur.quantity = C16_Min(cur.ordered, cur.balance)
          /\ cur.quantity <= cur.balance
          /\ cur.quantity > 0)
  /\ [][(cur' # cur /\ cur'.dir = "SELL" /\ cur'.balance > 0) =>
          /\ pc' = "selected"
          /\ job'.type = "SELL"]_vars

\* a sell of LargeQuantity with a balance of SmallQuantity was sent for
\* SmallQuantity
C16_Witness ==
  /\ cur.dir = "SELL"
  /\ cur.ordered = LargeQuantity
  /\ cur.balance = SmallQuantity
  /\ cur.quantity = SmallQuantity
  /\ pc = "waiting"
  /\ job.tx # 0

\* C17: whatever error is raised while a buy or sell cycle processes a
\* proposal, the loop of the trade gofer goes on to its next cycle: the loop
\* never ends.
C17_LoopNeverEnds == gpc # "dead"

\* a step in which a gofer examines an order file while the halt file of its
\* direction is there
C18_ExaminesHalted ==
  /\ gpc \in {"buy", "sell"}
  /\ pc = "idle"
  /\ todo # <<>>
  /\ todo' # todo
  /\ haltFile[IF gpc = "buy" THEN "BUY" ELSE "SELL"]

\* C18: when the halt file of a direction is present as the gofer examines a
\* proposal of that direction, the proposal goes to neither buyBits nor
\* sellBits: no transaction is sent and no pending order is written.
C18_HaltedProposalNotExecuted ==
  [][C18_ExaminesHalted =>
       /\ pc' = "idle"
       /\ cur' = NoProposal
       /\ txs' = txs
       /\ orders' = orders]_vars

\* the buy gofer read the alert of the one proposal, found the halt file and
\* left the proposal where it was
C18_Witness ==
  /\ gpc = "buy"
  /\ pc = "idle"
  /\ todo = <<>>
  /\ observed
  /\ haltFile["BUY"]
  /\ proposed = 1
  /\ 1 \in DOMAIN proposals
  /\ proposals[1].dir = "BUY"
  /\ proposals[1].readable
  /\ now - proposals[1].timestamp <= staleBuyOrderMinutes * 60
  /\ alertFiles = {}
  /\ txs = <<>>
  /\ orders = EmptyDir

\* a step in which a cycle starts with an alert file of the gamer on disk
C20_ObservesAlert ==
  /\ gpc \in {"sleep", "between"}
  /\ gpc' \in {"buy", "sell"}
  /\ observed'

\* a step in which a gofer that holds an alert of the gamer reads an order
\* file of the gamer
C20_ReadsProposal ==
  /\ gpc \in {"buy", "sell"}
  /\ pc = "idle"
  /\ todo # <<>>
  /\ todo' # todo
  /\ gpc = "sell" => ~haltFile["SELL"]

\* C20: the proposal file is written before the alert, so a gofer that
\* observes an alert of a gamer finds a readable proposal of that gamer: there
\* is one when it reads the alert file, and each order file it then reads is
\* readable.
C20_AlertHasReadableProposal ==
  /\ [][C20_ObservesAlert =>
          \E i \in 1..Len(todo') : Readable(proposals, todo'[i])]_vars
  /\ [][C20_ReadsProposal => Readable(proposals, Head(todo))]_vars

\* the bits of the gamer the fleet owns on chain: those of the mined buys
C19_FleetBits ==
  LET RECURSIVE Sum(_)
      Sum(ts) == IF ts = {} THEN 0
                 ELSE LET t == CHOOSE x \in ts : TRUE
                      IN txs[t].bits + Sum(ts \ {t})
  IN Sum({t \in 1..Len(txs) : txs[t].mined})

\* C19: with buyUpTo(N) as the buy action of a gamer, the fleet never owns more
\* than N bits of that gamer, however rule evaluation, proposal execution,
\* the clearing of pending orders and the indexing of the purchases
\* interleave.
C19_FleetNeverOwnsMoreThanN == C19_FleetBits <= MaxBitsToOwn

\* every order file whose proposeOrder has ended has an alert: an alert file
\* of its direction is in the alert directory, or the gofer holds one
C21_Alerted ==
  \A i \in DOMAIN proposals :
    i # writing.id =>
      \/ \E a \in alertFiles : a.dir = proposals[i].dir
      \/ alerts[proposals[i].dir] # 0

\* C21: when the execution process stops and is started again, every proposal
\* that is still in the proposal directory and was due to be examined is
\* still due to be examined by the gofer, with no new alert for the gamer.
C21_RestartKeepsProposalsAlerted ==
  [][(Restart /\ C21_Alerted) => C21_Alerted']_vars

\* the rules were lit when each evaluated event went through
\* storeEventDetails: none of them was applied before indexingCaughtUp was set
C22_EvaluatedAfterTransition ==
  \A i \in evaluated : indexingCaughtUp /\ i > appliedBefore

\* C22: while an indexing process runs, indexingCaughtUp never goes back
\* from true to false, and the buy and sell rules are evaluated for no event
\* that was applied before it became true.
C22_CaughtUpIsOneWay ==
  /\ [][(indexingCaughtUp /\ indexerUp /\ indexerUp') => indexingCaughtUp']_vars
  /\ []C22_EvaluatedAfterTransition

\* the process applied events before the rules were lit, has evaluated the
\* rules for a later event, and is now fetching a range of catchUpDelta
\* blocks or more
C22_Witness ==
  /\ indexerUp
  /\ indexingCaughtUp
  /\ appliedBefore > 0
  /\ evaluated # {}
  /\ phase = "fetch"
  /\ fetchEnd - (lastEndBlock + 1) >= catchUpDelta

\* the bits left over the active lots of the ledger
C23_TotalRemaining ==
  LET RECURSIVE Sum(_)
      Sum(ks) == IF ks = {} THEN 0
                 ELSE LET k == CHOOSE x \in ks : TRUE
                      IN holdersDir[k].remainingBatchAmount + Sum(ks \ {k})
  IN Sum(DOMAIN holdersDir)

\* fetchEvents hands the next event to storeEventDetails
C23_Applies == indexerUp /\ indexedCount' = indexedCount + 1

\* C23: a SELL event for more bits than the active lots have left ends in the
\* fatal INSUFFICIENT_BITS error (the indexing process ends), and neither
\* this process nor a restarted one applies an event that comes after that
\* sell.
C23_ShortSellIsFatal ==
  /\ [][(/\ C23_Applies
         /\ ~chainEvents[indexedCount + 1].isBuy
         /\ chainEvents[indexedCount + 1].bitAmount > C23_TotalRemaining)
          => (~indexerUp' /\ shortSell' = indexedCount + 1)]_vars
  /\ [][(C23_Applies /\ shortSell # 0) => indexedCount + 1 <= shortSell]_vars

(***************************************************************************)
(*                         Claims on the rules                             *)
(***************************************************************************)
\* the calls of the action function made for rule i
C24_ActionCalls(i) ==
  {k \in 1..Len(invoked) : invoked[k].fn = "action" /\ invoked[k].rule = i}

\* the quantity function of rule i was called, its result q was put in the
\* context, and the action was called next, with that quantity
C24_QuantityThenAction(i) ==
  \E k \in 1..(Len(invoked) - 1) :
    /\ invoked[k].fn = "quantity" /\ invoked[k].rule = i
    /\ invoked[k + 1].fn = "action" /\ invoked[k + 1].rule = i
    /\ invoked[k + 1].quantity = invoked[k].quantity
    /\ (i = Len(results) =>
          ctxQuantity = [defined |-> TRUE, value |-> invoked[k].quantity])

\* C24: the rules of the filtered list are gone through in order; a rule
\* with conditions has its action invoked if and only if every one of its
\* conditions returned true; a rule with a quantity function has that
\* function invoked, its result put in the context as the quantity, and then
\* its action invoked.
C24_RulesInvokedAsSpecified ==
  /\ \A k \in 1..(Len(invoked) - 1) : invoked[k].rule <= invoked[k + 1].rule
  /\ \A k \in 1..Len(invoked) : invoked[k].rule \in 1..Len(results)
  /\ \A i \in 1..Len(results) :
       LET rule == processed.rules[i]
       IN /\ Cardinality(C24_ActionCalls(i)) <= 1
          /\ rule.conditions > 0 =>
               (C24_ActionCalls(i) # {}
                  <=> \A j \in 1..Len(results[i]) : results[i][j])
          /\ rule.quantity => C24_QuantityThenAction(i)

\* an evaluation of two rules has ended: the first has a condition that did
\* not hold and was not invoked, the second has a quantity function and was
\* invoked with what the function returned
C24_Witness ==
  /\ evalPos = 0
  /\ Len(results) = 2
  /\ processed.rules[1].conditions = MaxConditions
  /\ \E j \in 1..Len(results[1]) : ~results[1][j]
  /\ \E j \in 1..Len(results[1]) : results[1][j]
  /\ processed.rules[2].quantity
  /\ invoked = <<[fn |-> "quantity", rule |-> 2, quantity |-> SmallQuantity],
                 [fn |-> "action", rule |-> 2, quantity |-> SmallQuantity]>>

\* the rule object has both a quantity and conditions, or neither
C25_BothOrNeither(rule) == rule.quantity <=> rule.conditions.present

\* C25: a rule file with a rule object that specifies both quantity and
\* conditions, or neither of them, fails schema validation, and no rule of
\* it is evaluated.
C25_BothOrNeitherIsRejected ==
  (/\ processed.status # "none"
   /\ \E i \in 1..Len(document) : C25_BothOrNeither(document[i]))
    => (processed.status = "invalid" /\ processed.rules = <<>>)

(***************************************************************************)
(*                 Claims on the pending-order operations                  *)
(***************************************************************************)
\* the pending order of h is due for removal: it carries the mined mark, or
\* it is older than maxPendingInSeconds, or the chain nonce of h is past the
\* recorded one
C26_Due(h) ==
  \/ orders[h].mined
  \/ now - orders[h].timestamp > maxPendingInSeconds
  \/ GetTransactionCount(h) > orders[h].nonce

\* what refreshPendingOrder does for each holder with a pending order: it
\* removes a file that is due and returns null, it returns the order of any
\* other file and leaves the files as they are
C26_RefreshResult ==
  \A h \in DOMAIN orders :
    RefreshPendingOrder(orders, h) =
      IF C26_Due(h)
        THEN [files |-> [k \in DOMAIN orders \ {h} |-> orders[k]],
              order |-> FALSE]
        ELSE [files |-> orders, order |-> TRUE]

\* C26: refreshPendingOrder(holder) removes the pending-order file and returns
\* null exactly when the file carries the mined mark, or is older than
\* maxPendingInSeconds, or the holder's chain nonce is past the recorded
\* nonce; otherwise it returns the order and leaves the file as it is.  No
\* step of the execution process takes a file away that is not due.
C26_RefreshRemovesExactlyWhenDue ==
  /\ []C26_RefreshResult
  /\ [][\A h \in DOMAIN orders : h \notin DOMAIN orders' => C26_Due(h)]_vars

\* the sell gofer has refreshed the pending order of the holder of its
\* proposal and found it expired: the transaction recorded for the holder is
\* neither mined nor marked, the file is gone and the holder is taken
C26_Witness ==
  /\ pc = "selected"
  /\ job.type = "SELL"
  /\ ~PathExists(orders, job.holder)
  /\ \E t \in 1..Len(txs) :
       /\ txs[t].sender = job.holder
       /\ recorded[t] > 0
       /\ ~txs[t].mined
  /\ \E h \in DOMAIN orders : ~C26_Due(h)

\* markMinedOrder(holder, txHash) has read the holder's file in this step: it
\* goes on to set the mark exactly when it found a file with that txHash, and
\* has changed no file
C27_ReadDecides ==
  \A t \in TxHashes :
    (t \in indexed' /\ t \notin indexed) =>
      /\ orders' = orders
      /\ marking' # 0 <=> /\ txs[t].sender \in DOMAIN orders
                          /\ orders[txs[t].sender].txHash = t
      /\ marking' # 0 => marking' = t

\* markMinedOrder sets the mark in this step: no file is deleted, no file of
\* another holder and no content changes, and the order it has read is marked
C27_ChmodKeeps ==
  (marking # 0 /\ marking' = 0 /\ pc' = pc) =>
    LET h == txs[marking].sender
    IN /\ DOMAIN orders' = DOMAIN orders
       /\ \A k \in DOMAIN orders :
            /\ k # h => orders'[k] = orders[k]
            /\ [orders'[k] EXCEPT !.mined = FALSE]
                 = [orders[k] EXCEPT !.mined = FALSE]
       /\ (h \in DOMAIN orders /\ orders[h].txHash = marking)
            => orders'[h].mined

\* a marked order counts as no pending bits, whichever the direction
C27_MarkedCountsZero ==
  \A h \in DOMAIN orders :
    orders[h].mined => \A d \in Dirs : GetAmountPending(h, d) = 0

\* a marked order stays as it is until the execution process, between two
\* proposals, takes it away with refreshPendingOrder
C27_MarkedUntilRefreshed ==
  \A h \in DOMAIN orders :
    (orders[h].mined /\ (h \notin DOMAIN orders' \/ orders'[h] # orders[h]))
      => /\ h \notin DOMAIN orders'
         /\ pc = "idle"
         /\ ~RefreshPendingOrder(orders, h).order

\* C27: markMinedOrder(holder, txHash) never deletes the pending order; it
\* sets the mined mark if and only if it finds a pending order of the holder
\* whose stored txHash equals txHash, and changes nothing otherwise; a marked
\* order counts as 0 pending bits from then on, and only a later
\* refreshPendingOrder removes it.
C27_MarkNeverDeletes ==
  /\ [][C27_ReadDecides]_vars
  /\ [][C27_ChmodKeeps]_vars
  /\ []C27_MarkedCountsZero
  /\ [][C27_MarkedUntilRefreshed]_vars

\* one order carries the mark of its own transaction, and markMinedOrder has
\* come and gone for another transaction without a file to mark
C27_Witness ==
  /\ marking = 0
  /\ \E h \in DOMAIN orders :
       /\ orders[h].mined
       /\ orders[h].txHash \in indexed
       /\ orders[h].numberOfBits > 0
  /\ \E t \in indexed : txs[t].sender \notin DOMAIN orders

\* the holder is in the low-balance cache of the TxGofer
C28_Cached(h) ==
  /\ lowBalanceCache[h] # 0
  /\ now - lowBalanceCache[h] < lowBalCacheTTLMinutes * 60

\* the holder is free once its pending order is refreshed: it has no file, or
\* a file that is marked mined, expired or superseded by the chain nonce
C28_FreeAfterRefresh(h) ==
  \/ h \notin DOMAIN orders
  \/ orders[h].mined
  \/ now - orders[h].timestamp > maxPendingInSeconds
  \/ GetTransactionCount(h) > orders[h].nonce

\* what a call of selectNextFreeKeySlot made now returns
C28_Call == SelectNextFreeKeySlot(orders, lowBalanceCache,
                                  lastChosenFleetAddrIndex)

\* the holders in the order of the scan, the one after the cursor first
C28_Place(h) == (h + NumHolders - lastChosenFleetAddrIndex - 1) % NumHolders

\* C28 as stated: selectNextFreeKeySlot returns -1 only if no holder is both
\* free (after the refresh of the second pass) and sufficiently funded
C28_AsStated ==
  (pc = "idle" /\ C28_Call.result = -1)
    => \A h \in Holders : ~(C28_FreeAfterRefresh(h) /\ funded[h])

\* the result of a call made now: -1 only with no usable holder, and with no
\* holder for the first pass the first reclaimable holder of the scan
C28_CallResult ==
  LET usable == {h \in Holders :
                   C28_FreeAfterRefresh(h) /\ funded[h] /\ ~C28_Cached(h)}
      first == {h \in usable : h \notin DOMAIN orders}
  IN pc = "idle" =>
       /\ C28_Call.result = -1 => usable = {}
       /\ (first = {} /\ usable # {}) =>
            /\ C28_Call.result \in usable
            /\ \A g \in usable : C28_Place(C28_Call.result) <= C28_Place(g)
            /\ C28_Call.result \notin DOMAIN C28_Call.files

\* C28: selectNextFreeKeySlot returns the failure sentinel -1 only if, after
\* a first pass over the holders without a pending-order file and a second
\* pass that refreshes each holder's pending order, no holder is free,
\* sufficiently funded and outside the low-balance cache; when the first pass
\* finds no holder, the second pass returns the first holder of the scan that
\* is funded, outside the cache and whose pending order is mined-marked,
\* expired or superseded by nonce.  The buy cycle takes the holder returned.
C28_MinusOneOnlyIfNoneUsable ==
  /\ []C28_CallResult
  /\ [][(pc = "idle" /\ pc' = "selected" /\ job'.type = "BUY")
          => job'.holder = C28_Call.result]_vars

\* the second pass has returned a holder: the order recorded for its
\* transaction is gone, and each of the other holders has a pending-order
\* file or was cached for its balance in this call
C28_Witness ==
  /\ pc = "selected"
  /\ job.type = "BUY"
  /\ job.tx = 0
  /\ job.holder \notin DOMAIN orders
  /\ \E t \in 1..Len(txs) :
       txs[t].sender = job.holder /\ recorded[t] = 1
  /\ \A g \in Holders \ {job.holder} :
       g \in DOMAIN orders \/ lowBalanceCache[g] = now

\* the pending order of the holder is older than maxPendingInSeconds
C29_Overdue(h) ==
  /\ h \in DOMAIN orders
  /\ now - orders[h].timestamp > maxPendingInSeconds

\* the second loop of selectNextFreeKeySlot, on coming to the holder, returns
\* it and has removed its file
C29_SecondPassTakes(h) ==
  LET p == ScanPass(orders, lowBalanceCache, (h + NumHolders - 1) % NumHolders,
                    NumHolders - 1, TRUE)
  IN p.found /\ p.index = h /\ h \notin DOMAIN p.files

\* a call of selectNextFreeKeySlot made now returns a holder: this one, or one
\* without a file, or one that the second loop comes to before this one
C29_CallFinds(h) ==
  LET s == SelectNextFreeKeySlot(orders, lowBalanceCache,
                                 lastChosenFleetAddrIndex)
      place(g) == (g + NumHolders - lastChosenFleetAddrIndex - 1) % NumHolders
  IN /\ s.result # -1
     /\ \/ s.result = h
        \/ s.result \notin DOMAIN orders
        \/ place(s.result) < place(h)

C30_MarkOnlyForStoredHash ==
  [][\A h \in Holders :
       (/\ h \in DOMAIN orders'
        /\ orders'[h].mined
        /\ (h \in DOMAIN orders => ~orders[h].mined))
         => /\ marking # 0
            /\ txs[marking].sender = h
            /\ orders'[h].txHash = marking]_vars

(***************************************************************************)
(*                  Claims on the execution of proposals                   *)
(***************************************************************************)
\* the cost of the full quantity of the buy proposal last examined, at the
\* price read for it
C31_Cost == cur.price * cur.ordered

\* the buy proposal last examined, while the holder's token balance is below
\* the cost of its full quantity: the proposal is out of the store and the
\* execution process has nothing in hand for it
C31_Discarded ==
  (cur.dir = "BUY" /\ cur.balance < C31_Cost)
    => /\ cur.id \notin DOMAIN proposals
       /\ cur.quantity = 0
       /\ pc = "idle"
       /\ job = NoJob

\* C31: a BUY proposal is executed for its full proposed quantity or not at
\* all: with the selected holder's token balance below the cost of the full
\* quantity at the current buy price the proposal is discarded and no
\* transaction is submitted for it, and the quantity handed to buyBits and
\* recorded in the transaction is never another than the proposed one.
C31_FullQuantityOrNothing ==
  /\ []C31_Discarded
  /\ [](cur.dir = "BUY" => cur.quantity \in {0, cur.ordered})
  /\ [][(Len(txs') = Len(txs) + 1 /\ job.type = "BUY")
          => /\ txs'[Len(txs')].bits = cur.ordered
             /\ cur.balance >= C31_Cost]_vars
  /\ [][(cur' # cur /\ cur.dir = "BUY" /\ cur.balance < C31_Cost)
          => txs' = txs]_vars

\* a large proposal was examined for a holder that could pay for a small one
\* only: it is gone and nothing was sent
C31_Witness ==
  /\ cur.dir = "BUY"
  /\ cur.ordered = LargeQuantity
  /\ cur.balance = BuyPrice * SmallQuantity
  /\ cur.price = BuyPrice
  /\ cur.id \notin DOMAIN proposals
  /\ txs = <<>>
  /\ pc = "idle"


(***************************************************************************)
(*                    Further claims on the ledger                         *)
(***************************************************************************)
\* C32: a lot is in the archive exactly when nothing remains of it, and the
\* record of an archived lot is neither overwritten nor deleted by a later
\* addGamerBatch or updateGamerBatch call on the same holder and gamer.
C32_ArchiveIsKept ==
  /\ [](\A n \in DOMAIN holdersDir : holdersDir[n].remainingBatchAmount > 0)
  /\ [](\A n \in DOMAIN archiveDir : archiveDir[n].remainingBatchAmount = 0)
  /\ [][\A n \in DOMAIN archiveDir :
          /\ n \in DOMAIN archiveDir'
          /\ archiveDir'[n] = archiveDir[n]]_vars


\* the purchase blocks of the lots on record, active or archived
C33_PurchaseBlocks ==
  {holdersDir[n].BlockNumOnWhichBitsWereBought : n \in DOMAIN holdersDir}
    \cup {archiveDir[n].BlockNumOnWhichBitsWereBought : n \in DOMAIN archiveDir}

\* C33: addGamerBatch rejects, without writing anything, a lot whose purchase
\* block is lower than that of the previous lot of the same holder and gamer:
\* a call that fails leaves the store as it is, and a lot that is added has a
\* purchase block not below that of any lot added before it.
C33_PurchaseBlocksNeverDecrease ==
  /\ [][(lastCall'.op = "addGamerBatch" /\ lastCall'.error # "none")
          => holdersDir' = holdersDir /\ archiveDir' = archiveDir]_vars
  /\ [][\A n \in DOMAIN holdersDir' :
          (n \notin DOMAIN holdersDir /\ archiveDir' = archiveDir)
            => \A b \in C33_PurchaseBlocks :
                 b <= holdersDir'[n].BlockNumOnWhichBitsWereBought]_vars


\* the store as updateGamerBatch finds it
C34_Store == [holders |-> holdersDir, archive |-> archiveDir,
              error |-> "none", left |-> 0]

\* updateGamerBatch, called for an active lot with a sale block below the
\* lot's purchase block or below the sale block recorded on it, fails and
\* leaves the store as it is
C34_Rejects ==
  \A n \in DOMAIN holdersDir : \A a \in SellAmounts : \A b \in Blocks :
    LET lot == holdersDir[n]
        after == UpdateGamerBatch(C34_Store, n, a, b, UnitPrice * a)
    IN (\/ b < lot.BlockNumOnWhichBitsWereBought
        \/ /\ lot.BlockNumberOnWhichBitsWereSold # 0
           /\ b < lot.BlockNumberOnWhichBitsWereSold)
         => /\ after.error # "none"
            /\ after.holders = holdersDir
            /\ after.archive = archiveDir

\* a lot with a sale block on record was sold at or after its purchase
C34_SoldAfterBought(lot) ==
  lot.BlockNumberOnWhichBitsWereSold # 0
    => lot.BlockNumberOnWhichBitsWereSold >= lot.BlockNumOnWhichBitsWereBought

\* the record of active lot n after the step, in the directory it is in then
C34_Later(n) == IF n \in DOMAIN holdersDir' THEN holdersDir'[n]
                ELSE archiveDir'[n]

\* C34: updateGamerBatch fails, leaving the lot unchanged, when the sale
\* block is lower than the lot's purchase block or lower than the sale block
\* already recorded on the lot; the sale block recorded on a lot never
\* decreases and is never below the lot's purchase block.
C34_SaleBlockNeverDecreases ==
  /\ []C34_Rejects
  /\ [](\A n \in DOMAIN holdersDir : C34_SoldAfterBought(holdersDir[n]))
  /\ [](\A n \in DOMAIN archiveDir : C34_SoldAfterBought(archiveDir[n]))
  /\ [][\A n \in DOMAIN holdersDir :
          C34_Later(n).BlockNumberOnWhichBitsWereSold
            >= holdersDir[n].BlockNumberOnWhichBitsWereSold]_vars

\* a call was refused for its sale block, on a lot with an earlier sale on
\* record
C34_Witness ==
  /\ lastCall.op = "updateGamerBatch"
  /\ lastCall.error = "BLOCK_NUMBER_NOT_INCREMENTED"
  /\ lastCall.unchanged
  /\ \E n \in DOMAIN holdersDir :
       holdersDir[n].BlockNumberOnWhichBitsWereSold > FirstBlock


\* getBitBalanceInStore: the sum of the remaining amounts of the lots of a
\* directory
C35_Held(dir) ==
  LET RECURSIVE Sum(_)
      Sum(ks) == IF ks = {} THEN 0
                 ELSE LET k == CHOOSE x \in ks : TRUE
                      IN dir[k].remainingBatchAmount + Sum(ks \ {k})
  IN Sum(DOMAIN dir)

\* C35: the held quantity of the holder and gamer, the sum of the remaining
\* amounts of the active lots, is the quantity of the BUY events applied
\* minus that of the SELL events applied: it starts at 0, an event that
\* storeEventDetails applies adds its quantity (BUY) or takes it away (SELL),
\* and an event that is not applied leaves the held quantity as it is.
C35_HeldIsBuysMinusSells ==
  /\ C35_Held(holdersDir) = 0
  /\ [][(indexerUp /\ indexedCount' = indexedCount + 1) =>
          LET ev == chainEvents[indexedCount + 1]
          IN C35_Held(holdersDir') =
               IF ~indexerUp' THEN C35_Held(holdersDir)
               ELSE IF ev.isBuy THEN C35_Held(holdersDir) + ev.bitAmount
               ELSE C35_Held(holdersDir) - ev.bitAmount]_vars


\* a step in which a gofer examines a readable order file while the halt file
\* of its direction is there
C36_ExaminesHalted ==
  /\ gpc \in {"buy", "sell"}
  /\ pc = "idle"
  /\ todo # <<>>
  /\ todo' # todo
  /\ haltFile[IF gpc = "buy" THEN "BUY" ELSE "SELL"]
  /\ Readable(proposals, Head(todo))

\* the buy gofer compares the age of the order with the stale threshold before
\* it looks for the halt file
C36_StaleBuy ==
  /\ gpc = "buy"
  /\ now - proposals[Head(todo)].timestamp > staleBuyOrderMinutes * 60

C37_WaitsForReceipt ==
  /\ pc = "waiting"
  /\ ~txs[job.tx].mined

\* the loop of processBuyAlerts has a further proposal to examine, fresh and
\* not halted, and a holder other than the one waited for has no pending order
C37_OtherOrderReady ==
  /\ gpc = "buy"
  /\ todo # <<>>
  /\ Readable(proposals, Head(todo))
  /\ now - proposals[Head(todo)].timestamp <= staleBuyOrderMinutes * 60
  /\ ~haltFile["BUY"]
  /\ \E h \in Holders : h # job.holder /\ ~PathExists(orders, h)

\* the gofer takes the next proposal of its loop
C37_Dispatch ==
  \E f \in BOOLEAN : \E p \in BuyPrices : \E b \in WelsBalances :
    \E g \in BOOLEAN : ExamineBuy(f, p, b, g)

C38_Committed(h) == GetAmountPending(h, "SELL") + GetProposedSumFor("SELL", h)

\* the quantity the claim gives for a balance, the committed bits and the
\* rule's quantity
C38_Quantity(bitBalance, committed, m) ==
  IF committed >= bitBalance THEN 0
  ELSE IF m < bitBalance - committed THEN m
  ELSE bitBalance - committed

\* C38: adjustSellTargetAmount gives 0 when the holder's pending sell plus its
\* proposed sells reach its balance in the store, else the smaller of the
\* rule's quantity and balance - pending - proposed; a step of the sell
\* action proposes exactly that quantity for the holder, or nothing when it
\* is 0, so that after the step the pending and proposed sells of the holder
\* are within the balance the step read.
C38_SellProposalsWithinBalance ==
  [][\A h \in SellHolders : \A m \in OrderQuantities : \A b \in BitsBalances :
       SellBit(h, m, b) =>
         LET q == C38_Quantity(b, C38_Committed(h), m)
         IN IF q = 0 THEN proposals' = proposals
            ELSE /\ proposed' = proposed + 1
                 /\ DOMAIN proposals' = DOMAIN proposals \cup {proposed'}
                 /\ proposals'[proposed'].dir = "SELL"
                 /\ proposals'[proposed'].holderAddress = h
                 /\ proposals'[proposed'].quantity = q
                 /\ \A i \in DOMAIN proposals : proposals'[i] = proposals[i]
                 /\ C38_Committed(h)' = C38_Committed(h) + q
                 /\ C38_Committed(h)' <= b]_vars

\* a holder has a pending sell of SmallQuantity that is not mined, and the
\* rule, with LargeQuantity to sell of a balance of LargeQuantity, has
\* proposed what is left
C38_Witness ==
  \E h \in SellHolders :
    /\ PathExists(orders, h)
    /\ orders[h].orderType = "SELL"
    /\ ~orders[h].mined
    /\ orders[h].numberOfBits = SmallQuantity
    /\ proposed = 2
    /\ 2 \in DOMAIN proposals
    /\ proposals[2].dir = "SELL"
    /\ proposals[2].holderAddress = h
    /\ proposals[2].quantity = LargeQuantity - SmallQuantity


\* the holder has an entry in the low-balance cache that is younger than the
\* TTL
C39_Cached(h) ==
  /\ lowBalanceCache[h] # 0
  /\ now - lowBalanceCache[h] < lowBalCacheTTLMinutes * 60

\* the holder has an entry in the low-balance cache and the TTL has elapsed
\* since it was cached
C39_Lapsed(h) ==
  /\ lowBalanceCache[h] # 0
  /\ now - lowBalanceCache[h] >= lowBalCacheTTLMinutes * 60

\* what a call of selectNextFreeKeySlot by the idle gofer does in this state
C39_Call ==
  SelectNextFreeKeySlot(orders, lowBalanceCache, lastChosenFleetAddrIndex)

\* C39: a call of selectNextFreeKeySlot stamps a holder in the low-balance
\* cache, with the time of the call, only if the holder has no pending order
\* left and fails the balance check; while the TTL has not elapsed since a
\* holder was cached, a call neither returns it nor checks it (its entry
\* stays as it is, also when the holder is funded again); once the TTL has
\* elapsed a holder without a pending order is checked again: a funded one
\* makes the call succeed, an unfunded one that the scan reaches is stamped
\* anew.
C39_CachedHolderIsPassedOver ==
  pc = "idle" =>
    \A h \in Holders :
      /\ C39_Call.cache[h] # lowBalanceCache[h] =>
           /\ ~funded[h]
           /\ ~C39_Cached(h)
           /\ h \notin DOMAIN C39_Call.files
           /\ C39_Call.cache[h] = now
      /\ C39_Cached(h) =>
           /\ C39_Call.result # h
           /\ C39_Call.cache[h] = lowBalanceCache[h]
      /\ (C39_Lapsed(h) /\ h \notin DOMAIN orders) =>
           IF funded[h] THEN C39_Call.result # -1
           ELSE C39_Call.result = -1 => C39_Call.cache[h] = now

\* one holder was cached two ticks ago and is unfunded still: its entry has
\* lapsed; another was cached one tick ago and is funded again: the call
\* passes it over
C39_Witness ==
  /\ pc = "idle"
  /\ \E g, h \in Holders :
       /\ g # h
       /\ C39_Lapsed(g)
       /\ ~funded[g]
       /\ g \notin DOMAIN orders
       /\ C39_Cached(h)
       /\ now > lowBalanceCache[h]
       /\ funded[h]
       /\ h \notin DOMAIN orders
       /\ C39_Call.result # h


\* the calls made for rule i, of its quantity function or of its action
C40_Calls(i) == {k \in 1..Len(invoked) : invoked[k].rule = i}

\* C40: when a condition function of a rule throws, the evaluation ends there
\* with its promise rejected, naming the rule and the condition: neither the
\* quantity function nor the action of that rule is called, the rule is not
\* counted as one whose conditions were false, and no later rule is gone
\* through.
C40_ThrowingConditionPropagates ==
  /\ [][\A res \in SeqsUpTo(BOOLEAN, MaxConditions) :
          \A k \in 1..MaxConditions : \A q \in QuantityResults :
            EvaluateRule(res, k, q) =>
              /\ rejection' = [rule |-> evalPos, condition |-> k]
              /\ evalPos' = 0
              /\ invoked' = invoked
              /\ results' = results
              /\ ctxQuantity' = ctxQuantity]_vars
  /\ [](rejection # NoRejection =>
          /\ evalPos = 0
          /\ C40_Calls(rejection.rule) = {}
          /\ Len(results) = rejection.rule - 1
          /\ \A k \in 1..Len(invoked) : invoked[k].rule < rejection.rule)

\* the first rule was invoked; the second condition of the second rule threw
\* and the evaluation ended without a call for the second rule
C40_Witness ==
  /\ rejection = [rule |-> 2, condition |-> MaxConditions]
  /\ processed.rules[2].conditions = MaxConditions
  /\ evalPos = 0
  /\ Len(results) = 1
  /\ C40_Calls(1) # {}
  /\ C40_Calls(2) = {}

=============================================================================
